---- MODULE Spec2Model ----
(***************************************************************************)
(* Model of the SecondBrainAgent durable object (src/src/agent.ts) and of  *)
(* the services it calls (slack, search, notion, openrouter).              *)
(*                                                                         *)
(* Every inbound request is handled by fetch, which acknowledges it and    *)
(* starts the handler with ctx.waitUntil.  A handler is a task that runs   *)
(* from one await of an outbound call to the next; between two awaits of   *)
(* different tasks the runtime may deliver other events, so the tasks      *)
(* interleave at their awaits.  updateState (assignment of this.state and  *)
(* storage.put) is one step: the storage operation closes the input gate.  *)
(*                                                                         *)
(* Strings that the code inspects (reply texts, names) are sequences of    *)
(* one-character strings; confidences and scores are integers and          *)
(* fractions, so that the comparisons of the code are exact.               *)
(***************************************************************************)
EXTENDS Integers, Sequences, FiniteSets, TLC

\* ------------------------------------------------------------------ bounds
MaxTasks == 3          \* handlers started in one conversation
MaxThreads == 2        \* conversations going on side by side
MaxThreadTasks == 2    \* handlers started when there are several conversations
MaxProbeTasks == 1     \* handlers started when requests are also forged
MaxFailures == 1       \* outbound calls that fail
MaxProbeFailures == 2  \* outbound calls that fail when one handler runs alone

\* --------------------------------------------------------------- constants
CONFIDENCE_THRESHOLD == 60     \* percent
USER_CONFIRMED == 95           \* percent: confidence of a user-chosen category
RELATED_CONFIDENCE == 90       \* percent: confidence of a create_related record
MAX_SKEW == 300                \* seconds: 60 * 5
Now == 1000                    \* Math.floor(Date.now() / 1000) at the request

Categories == {"person", "project", "idea", "admin"}
CHANNEL == "C1"
SIGNING_SECRET == "secret"

\* ------------------------------------------------------------------ strings
\* String.prototype.toLowerCase on the characters the model uses
toLowerCase(s) ==
  [i \in 1..Len(s) |->
     CASE s[i] = "U" -> "u"
       [] s[i] = "N" -> "n"
       [] s[i] = "S" -> "s"
       [] s[i] = "L" -> "l"
       [] s[i] = "C" -> "c"
       [] OTHER -> s[i]]

RECURSIVE trimStart(_)
trimStart(s) == IF s # <<>> /\ Head(s) = " " THEN trimStart(Tail(s)) ELSE s

RECURSIVE trimEnd(_)
trimEnd(s) ==
  IF s # <<>> /\ s[Len(s)] = " " THEN trimEnd(SubSeq(s, 1, Len(s) - 1)) ELSE s

\* String.prototype.trim
trim(s) == trimEnd(trimStart(s))

\* String.prototype.includes
includes(s, sub) ==
  \E i \in 0..(Len(s) - Len(sub)) : SubSeq(s, i + 1, i + Len(sub)) = sub

str_update == <<"u", "p", "d", "a", "t", "e">>
str_new == <<"n", "e", "w">>
str_sep == <<",", " ">>

\* String.prototype.split for a one-character separator: every piece, the
\* empty ones included
RECURSIVE splitAt(_, _, _)
splitAt(s, sep, cur) ==
  IF s = <<>> THEN <<cur>>
  ELSE IF Head(s) = sep THEN <<cur>> \o splitAt(Tail(s), sep, <<>>)
  ELSE splitAt(Tail(s), sep, Append(cur, Head(s)))

split(s, sep) == splitAt(s, sep, <<>>)

\* String.prototype.split(/\s+/): a run of blanks is one separator
RECURSIVE squeeze(_)
squeeze(s) ==
  IF Len(s) < 2 THEN s
  ELSE IF s[1] = " " /\ s[2] = " " THEN squeeze(Tail(s))
  ELSE <<Head(s)>> \o squeeze(Tail(s))

splitWords(s) == split(squeeze(s), " ")

\* Array.prototype.join
RECURSIVE join(_, _)
join(parts, sep) ==
  IF parts = <<>> THEN <<>>
  ELSE IF Len(parts) = 1 THEN parts[1]
  ELSE parts[1] \o sep \o join(Tail(parts), sep)

Max(a, b) == IF a >= b THEN a ELSE b
Min(a, b) == IF a <= b THEN a ELSE b

\* ------------------------------------------------------------------ scores
\* A score is the fraction num / den, den > 0; a similarity scaled by 0.8 or
\* by 0.9 stays an exact fraction.
Score(n, d) == [num |-> n, den |-> d]
times(s, n, d) == Score(s.num * n, s.den * d)
greater(s, t) == s.num * t.den > t.num * s.den
isOne(s) == s.num = s.den
ZERO == Score(0, 1)
ONE == Score(1, 1)
P50 == Score(5, 10)
P80 == Score(8, 10)

\* ---------------------------------------------------------- services/search
calculateSimilarity_queryWords(str1, str2) ==
  LET s1 == toLowerCase(str1)
      s2 == toLowerCase(str2)
      words1 == splitWords(s1)
      words2 == splitWords(s2)
      common(w) == \E j \in 1..Len(words2) :
                      includes(words2[j], w) \/ includes(w, words2[j])
      commonWords == SelectSeq(words1, common)
  IN  IF s1 = s2 THEN ONE
      ELSE IF includes(s1, s2) \/ includes(s2, s1)
        THEN Score(Min(Len(s1), Len(s2)), Max(Len(s1), Len(s2)))
      ELSE IF Len(commonWords) > 0
        THEN times(Score(Len(commonWords), Len(words1)), 8, 10)
      ELSE ZERO

\* calculateSimilarity(str1, str2)
calculateSimilarity(str1, str2) ==
  LET s1 == toLowerCase(str1)
      s2 == toLowerCase(str2)
      words1 == splitWords(s1)
      words2 == splitWords(s2)
      common(w) == \E j \in 1..Len(words2) :
                      includes(words2[j], w) \/ includes(w, words2[j])
      commonWords == SelectSeq(words1, common)
  IN  IF s1 = s2 THEN ONE
      ELSE IF includes(s1, s2) \/ includes(s2, s1)
        THEN Score(Min(Len(s1), Len(s2)), Max(Len(s1), Len(s2)))
      ELSE IF Len(commonWords) > 0
        THEN times(Score(Len(commonWords), Max(Len(words1), Len(words2))), 8, 10)
      ELSE ZERO

\* A page of the store: the database it lives in and its properties
Page(db, props) == [db |-> db, props |-> props]

\* extractName(page)
extractName(page) ==
  IF "Name" \in DOMAIN page.props THEN page.props["Name"] ELSE <<>>

nonEmpty(n) == Len(n) > 0

\* extractNicknames(page)
extractNicknames(page) ==
  IF "Nicknames" \in DOMAIN page.props /\ Len(page.props["Nicknames"]) > 0
  THEN LET parts == split(page.props["Nicknames"], ",")
           trimmed == [i \in 1..Len(parts) |-> trim(parts[i])]
       IN  SelectSeq(trimmed, nonEmpty)
  ELSE <<>>

\* queryDatabaseWithProperties(databaseId, token, filter): the ids, in store
\* order, of the pages of the database whose title contains the query; the
\* store compares titles without regard to case
RECURSIVE queryTitleContains(_, _, _, _)
queryTitleContains(store, db, query, from) ==
  IF from > Len(store) THEN <<>>
  ELSE (IF store[from].db = db
           /\ includes(toLowerCase(extractName(store[from])), toLowerCase(query))
        THEN <<from>> ELSE <<>>)
       \o queryTitleContains(store, db, query, from + 1)

\* queryDatabaseWithProperties(databaseId, token): every page of the database
RECURSIVE queryAll(_, _, _)
queryAll(store, db, from) ==
  IF from > Len(store) THEN <<>>
  ELSE (IF store[from].db = db THEN <<from>> ELSE <<>>)
       \o queryAll(store, db, from + 1)

SearchResult(id, category, name, matchType, score) ==
  [pageId |-> id, category |-> category, name |-> name,
   matchType |-> matchType, score |-> score]

\* the title matches of searchByName: one result per page with similarity > 0
RECURSIVE titleMatches(_, _, _, _)
titleMatches(store, ids, query, category) ==
  IF ids = <<>> THEN <<>>
  ELSE LET name == extractName(store[Head(ids)])
           similarity == calculateSimilarity(query, name)
       IN  (IF greater(similarity, ZERO)
            THEN <<SearchResult(Head(ids), category, name,
                                IF isOne(similarity) THEN "exact" ELSE "partial",
                                similarity)>>
            ELSE <<>>)
           \o titleMatches(store, Tail(ids), query, category)

\* the first nickname of the list with similarity > 0.5, as a sequence of at
\* most one score scaled by 0.9 (the loop breaks at the first one)
RECURSIVE firstNickname(_, _)
firstNickname(nicknames, query) ==
  IF nicknames = <<>> THEN <<>>
  ELSE LET similarity == calculateSimilarity(query, Head(nicknames))
       IN  IF greater(similarity, P50) THEN <<times(similarity, 9, 10)>>
           ELSE firstNickname(Tail(nicknames), query)

\* the nickname matches of searchByName
RECURSIVE nicknameMatches(_, _, _, _)
nicknameMatches(store, ids, query, category) ==
  IF ids = <<>> THEN <<>>
  ELSE LET page == store[Head(ids)]
           hit == firstNickname(extractNicknames(page), query)
       IN  (IF hit # <<>>
            THEN <<SearchResult(Head(ids), category, extractName(page),
                                "nickname", hit[1])>>
            ELSE <<>>)
           \o nicknameMatches(store, Tail(ids), query, category)

\* Array.prototype.sort((a, b) => b.score - a.score): stable, descending
RECURSIVE insertByScore(_, _)
insertByScore(sorted, r) ==
  IF sorted = <<>> THEN <<r>>
  ELSE IF greater(r.score, Head(sorted).score) THEN <<r>> \o sorted
  ELSE <<Head(sorted)>> \o insertByScore(Tail(sorted), r)

RECURSIVE sortByScore(_)
sortByScore(results) ==
  IF results = <<>> THEN <<>>
  ELSE insertByScore(sortByScore(SubSeq(results, 1, Len(results) - 1)),
                     results[Len(results)])

searchByName_anyCategory(store, query, category) ==
  LET results == titleMatches(store, queryTitleContains(store, category, query, 1),
                              query, category)
  IN  IF Len(results) = 0
      THEN sortByScore(nicknameMatches(store, queryAll(store, category, 1),
                                       query, category))
      ELSE sortByScore(results)

\* searchByName(query, category, env)
searchByName(store, query, category) ==
  LET results == titleMatches(store, queryTitleContains(store, category, query, 1),
                              query, category)
  IN  IF category = "person" /\ Len(results) = 0
      THEN sortByScore(nicknameMatches(store, queryAll(store, category, 1),
                                       query, category))
      ELSE sortByScore(results)

likelyDuplicate(r) == greater(r.score, P50)

\* searchForDuplicates(name, category, env)
searchForDuplicates(store, name, category) ==
  SelectSeq(searchByName(store, name, category), likelyDuplicate)

\* ---------------------------------------------------------- services/notion
NoProps == [k \in {} |-> ""]

\* a field of CategoryFields that is present and truthy
has(fields, k) == k \in DOMAIN fields /\ fields[k] # ""
hasList(fields, k) == k \in DOMAIN fields /\ Len(fields[k]) > 0

\* `data.x ? {...} : undefined`: the property is sent only for a truthy field
optional(prop, fields, k) == IF has(fields, k) THEN prop :> fields[k] ELSE NoProps

\* `fields.status || dflt`
orDefault(fields, k, dflt) == IF has(fields, k) THEN fields[k] ELSE dflt

TODAY == "today"

\* createPerson(data, token, databaseId): the properties of the new page
createPerson(name, fields) ==
  ("Name" :> name)
  @@ (IF hasList(fields, "nicknames")
      THEN "Nicknames" :> join(fields["nicknames"], str_sep) ELSE NoProps)
  @@ optional("Context", fields, "context")
  @@ optional("Follow-ups", fields, "follow_ups")
  @@ ("Last Touched" :> TODAY)

\* createProject(data, token, databaseId)
createProject(name, fields) ==
  ("Name" :> name)
  @@ optional("Next Action", fields, "next_action")
  @@ optional("Notes", fields, "notes")
  @@ ("Status" :> orDefault(fields, "status", "active"))

\* createIdea(data, token, databaseId)
createIdea(name, fields) ==
  ("Name" :> name)
  @@ optional("One-liner", fields, "one_liner")
  @@ optional("Notes", fields, "notes")

\* createAdmin(data, token, databaseId)
createAdmin(name, fields) ==
  ("Name" :> name)
  @@ optional("Due Date", fields, "due_date")
  @@ ("Status" :> orDefault(fields, "status", "pending"))

\* getDatabaseId(category, env): the switch has no default, so any other
\* category yields undefined and every request made with it fails
getDatabaseId(category) == IF category \in Categories THEN category ELSE "undefined"

\* fileToNotion(classification): the page the switch creates; no case matches
\* another category, and reading page.id then throws
fileToNotionPage(classification) ==
  LET name == classification.name
      fields == classification.fields
      dbId == getDatabaseId(classification.category)
  IN  CASE classification.category = "person" -> Page(dbId, createPerson(name, fields))
        [] classification.category = "project" -> Page(dbId, createProject(name, fields))
        [] classification.category = "idea" -> Page(dbId, createIdea(name, fields))
        [] classification.category = "admin" -> Page(dbId, createAdmin(name, fields))
        [] OTHER -> Page("undefined", NoProps)

\* updatePage(pageId, properties, token): PATCH replaces the named properties
updatePage(store, pageId, properties) ==
  [store EXCEPT ![pageId].props = properties @@ @]

\* buildUpdateProperties(classification)
buildUpdateProperties(classification) ==
  LET fields == classification.fields
      category == classification.category
  IN  ("Name" :> classification.name)
      @@ (CASE category = "person" ->
                optional("Context", fields, "context")
                @@ optional("Follow-ups", fields, "follow_ups")
                @@ (IF hasList(fields, "nicknames")
                    THEN "Nicknames" :> join(fields["nicknames"], str_sep)
                    ELSE NoProps)
                @@ ("Last Touched" :> TODAY)
            [] category = "project" ->
                optional("Next Action", fields, "next_action")
                @@ optional("Notes", fields, "notes")
            [] category = "idea" ->
                optional("One-liner", fields, "one_liner")
                @@ optional("Notes", fields, "notes")
            [] category = "admin" -> optional("Due Date", fields, "due_date")
            [] OTHER -> NoProps)

\* ----------------------------------------------------------- services/slack
\* HMAC-SHA256(secret, base) behind the "v0=" prefix: two signatures are equal
\* exactly when the key and the signed string are
hmac(secret, timestamp, body) == [key |-> secret, timestamp |-> timestamp, body |-> body]

Abs(x) == IF x < 0 THEN -x ELSE x

verifySignature_anyTime(body, timestamp, signature, signingSecret) ==
  hmac(signingSecret, timestamp, body) = signature

\* verifySignature(body, timestamp, signature, signingSecret)
verifySignature(body, timestamp, signature, signingSecret) ==
  IF Abs(Now - timestamp) > MAX_SKEW THEN FALSE
  ELSE hmac(signingSecret, timestamp, body) = signature

\* category.charAt(0).toUpperCase() + category.slice(1)
capitalize(category) ==
  CASE category = "person" -> "Person"
    [] category = "project" -> "Project"
    [] category = "idea" -> "Idea"
    [] category = "admin" -> "Admin"
    [] OTHER -> category

\* A text sent to or received from the chat: a template with the values put
\* into it; the text of a user's message is its characters alone
Text(template, category, name, number) ==
  [template |-> template, category |-> category, name |-> name, number |-> number]
Raw(chars) == Text("", "", chars, 0)

\* formatConfirmation(category, name, confidence)
formatConfirmation(category, name, confidence) ==
  Text("Filed as", capitalize(category), name, confidence)

\* formatClarificationRequest(confidence)
formatClarificationRequest(confidence) ==
  Text("I'm not sure where this goes", "", <<>>, confidence)

\* ButtonPayload
ButtonPayload(action, threadTs, data) ==
  [action |-> action, threadTs |-> threadTs, channel |-> CHANNEL, data |-> data]

\* buildCategorySelectionBlocks(confidence, threadTs, channel)
buildCategorySelectionBlocks(confidence, threadTs) ==
  [buttons |-> {ButtonPayload("category_select", threadTs, cat) : cat \in Categories},
   text |-> formatClarificationRequest(confidence)]

DuplicateButtons(threadTs) ==
  {ButtonPayload("duplicate_resolve", threadTs, r) : r \in {"update", "new"}}

\* buildDuplicateResolutionBlocks(category, duplicateName, threadTs, channel)
buildDuplicateResolutionBlocks(category, duplicateName, threadTs) ==
  [buttons |-> DuplicateButtons(threadTs),
   text |-> Text("I found an existing", category, duplicateName, 0)]

buildThreadOptionsBlocks_always(threadTs, hasDuplicate) ==
  [buttons |->
     {ButtonPayload("thread_option", threadTs, o) :
        o \in {"change_category", "edit_fields", "add_context"}}
     \cup DuplicateButtons(threadTs),
   text |-> Text("I'm not sure what you'd like me to do", "", <<>>, 0)]

\* buildThreadOptionsBlocks(threadTs, channel, hasDuplicate)
buildThreadOptionsBlocks(threadTs, hasDuplicate) ==
  [buttons |->
     {ButtonPayload("thread_option", threadTs, o) :
        o \in {"change_category", "edit_fields", "add_context"}}
     \cup (IF hasDuplicate THEN DuplicateButtons(threadTs) ELSE {}),
   text |-> Text("I'm not sure what you'd like me to do", "", <<>>, 0)]

\* ------------------------------------------------------------------- types
\* ClassificationResult
Classification(category, confidence, name, fields) ==
  [category |-> category, confidence |-> confidence, name |-> name, fields |-> fields]

NoClassification == Classification("", 0, <<>>, NoProps)

\* notionPageId and potentialDuplicate are optional: 0 is no page id, and the
\* descriptor of page 0 is no duplicate
undefined == 0
PotentialDuplicate(pageId, name, category, score) ==
  [pageId |-> pageId, name |-> name, category |-> category, score |-> score]
NoDuplicate == PotentialDuplicate(undefined, <<>>, "", ZERO)

\* an entry of AgentState.threadContexts
ThreadContext(originalMessage, classification, notionPageId, potentialDuplicate, messages, createdAt) ==
  [originalMessage |-> originalMessage, classification |-> classification,
   notionPageId |-> notionPageId, potentialDuplicate |-> potentialDuplicate,
   messages |-> messages, createdAt |-> createdAt]

NoContext == ThreadContext(Raw(<<>>), NoClassification, undefined, NoDuplicate, <<>>, 0)

\* ThreadMessage
ThreadMessage(role, content) == [role |-> role, content |-> content]

\* `{[ts]: context}`: the map is written without the entries it had
withContext_alone(threadContexts, ts, context) ==
  [t \in {ts} |-> context]

\* `{...this.state.threadContexts, [ts]: context}`
withContext(threadContexts, ts, context) ==
  [t \in DOMAIN threadContexts \cup {ts} |->
     IF t = ts THEN context ELSE threadContexts[t]]

\* SlackMessageEvent; thread_ts 0 is a message outside any thread
MessageEvent(bot, subtype, text, ts, thread_ts) ==
  [bot |-> bot, subtype |-> subtype, text |-> text, ts |-> ts, thread_ts |-> thread_ts]
NoEvent == MessageEvent(FALSE, "", <<>>, 0, 0)
NoPayload == ButtonPayload("", 0, "")

\* An interactive message shown in a thread, named by the builder that made it
Prompt(kind, threadTs, hasDuplicate) ==
  [kind |-> kind, threadTs |-> threadTs, hasDuplicate |-> hasDuplicate]
NoPrompt == Prompt("", 0, FALSE)

\* the buttons a prompt shows
ButtonsOf(prompt) ==
  CASE prompt.kind = "category" ->
         buildCategorySelectionBlocks(0, prompt.threadTs).buttons
    [] prompt.kind = "duplicate" ->
         buildDuplicateResolutionBlocks("", <<>>, prompt.threadTs).buttons
    [] prompt.kind = "options" ->
         buildThreadOptionsBlocks(prompt.threadTs, prompt.hasDuplicate).buttons
    [] OTHER -> {}

\* The body of a request.  type is the JSON body's type ("block_actions" for an
\* interaction), "invalid_json" for a body that does not parse
Body(type, event, payload, prompt) ==
  [type |-> type, event |-> event, payload |-> payload, prompt |-> prompt]

\* The request, with the headers fetch reads
Request(method, hasTimestamp, timestamp, hasSignature, signature, interaction, body) ==
  [method |-> method, hasTimestamp |-> hasTimestamp, timestamp |-> timestamp,
   hasSignature |-> hasSignature, signature |-> signature,
   interaction |-> interaction, body |-> body]

\* a request signed by the chat platform at the current time
Signed(body) ==
  Request("POST", TRUE, Now, TRUE, hmac(SIGNING_SECRET, Now, body),
          body.type = "block_actions", body)

\* ------------------------------------------------------------------- state
VARIABLES
  state,      \* this.state.threadContexts: thread ts -> ThreadContext
  storage,    \* the copy under the key 'state' in durable storage
  pages,      \* the store: the sequence of pages, a page's id is its index
  inboxLog,   \* the audit collection: the rows written, with the writing task
  prompts,    \* the interactive messages visible in the chat
  tasks,      \* the handlers started by fetch, in the order of their start
  http,       \* the response of the last fetch
  failures,   \* the number of outbound calls that have failed
  network,    \* what the environment delivers: the handlers it starts, the
              \* conversations it holds, whether it also sends requests the
              \* chat platform did not sign, whether the alarm goes off,
              \* how many outbound calls it lets fail
  codec,      \* a button payload on its way through encodeButtonPayload and
              \* decodeButtonPayload, when these are exercised on their own
  search      \* a call of calculateSimilarity or searchByName, when these are
              \* exercised on their own

vars == <<state, storage, pages, inboxLog, prompts, tasks, http, failures, network, codec, search>>

\* A handler started by fetch: the call it awaits (pc), what it was started
\* with, its local variables, and what it has done so far
\* the local `intent` of a handler before the oracle has answered, and after
\* the block that declares it
NoIntent == [intent |-> "", details |-> NoProps]

Task(pc, event, payload, prompt, context) ==
  [pc |-> pc, event |-> event, payload |-> payload, prompt |-> prompt,
   context |-> context, classification |-> NoClassification, duplicates |-> <<>>,
   pageId |-> undefined, intent |-> NoIntent,
   updatedMessages |-> <<>>,
   botResponse |-> Raw(<<>>), calls |-> <<>>, posts |-> <<>>, created |-> <<>>,
   wrote |-> FALSE, failed |-> FALSE, outcome |-> ""]

Response(status, body) == [status |-> status, body |-> body]

\* names and texts of the inbound messages
name_sam_l == <<"s", "a", "m", " ", "l">>
name_sam_lee == <<"S", "a", "m", " ", "L", "e", "e">>
name_sammy == <<"s", "a", "m", "m", "y">>

text_capture == <<"m", "e", "t", " ", "s", "a", "m">>
text_update == <<" ", "U", "p", "d", "a", "t", "e">>
text_renew == <<"r", "e", "n", "e", "w">>
text_other == <<"m", "o", "r", "e">>
ReplyTexts == {text_update, text_renew, text_other}

\* ------------------------------------------------------------ agent: fetch
\* the fast path of handleThreadReply: the keyword the reply resolves the
\* pending duplicate with, "" when it has none
duplicateKeyword_caseSensitive(replyText) ==
  LET lowerText == trim(replyText)
  IN  IF lowerText = str_update \/ includes(lowerText, str_update) THEN "update"
      ELSE IF lowerText = str_new \/ includes(lowerText, str_new) THEN "new"
      ELSE ""

duplicateKeyword(replyText) ==
  LET lowerText == trim(toLowerCase(replyText))
  IN  IF lowerText = str_update \/ includes(lowerText, str_update) THEN "update"
      ELSE IF lowerText = str_new \/ includes(lowerText, str_new) THEN "new"
      ELSE ""

\* handleThreadReply up to its first await
startThreadReply(event, threadContexts) ==
  LET threadTs == event.thread_ts
  IN  IF threadTs \notin DOMAIN threadContexts
      THEN Task("postNoContext", event, NoPayload, NoPrompt, NoContext)
      ELSE LET context == threadContexts[threadTs]
               updatedMessages == Append(context.messages, ThreadMessage("user", Raw(event.text)))
               keyword == IF context.potentialDuplicate # NoDuplicate
                          THEN duplicateKeyword(event.text) ELSE ""
               t == [Task("detectThreadIntent", event, NoPayload, NoPrompt, context)
                       EXCEPT !.updatedMessages = updatedMessages]
           IN  IF keyword = "update" THEN [t EXCEPT !.pc = "duplicateUpdate"]
               ELSE IF keyword = "new" THEN [t EXCEPT !.pc = "duplicateNew"]
               ELSE t

\* handleSlackEvent without the check of bot_id
startSlackEvent_answersBots(event, threadContexts) ==
  IF event.subtype # "" \/ event.text = <<>>
    THEN Task("done", event, NoPayload, NoPrompt, NoContext)
  ELSE IF event.thread_ts # 0 /\ event.thread_ts # event.ts
    THEN startThreadReply(event, threadContexts)
  ELSE Task("detectMessageIntent", event, NoPayload, NoPrompt, NoContext)

\* handleSlackEvent up to its first await
startSlackEvent(event, threadContexts) ==
  IF event.bot THEN Task("done", event, NoPayload, NoPrompt, NoContext)
  ELSE IF event.subtype # "" \/ event.text = <<>>
    THEN Task("done", event, NoPayload, NoPrompt, NoContext)
  ELSE IF event.thread_ts # 0 /\ event.thread_ts # event.ts
    THEN startThreadReply(event, threadContexts)
  ELSE Task("detectMessageIntent", event, NoPayload, NoPrompt, NoContext)

\* handleSlackInteraction up to its first await
startSlackInteraction(body, threadContexts) ==
  LET payload == body.payload
  IN  IF body.type # "block_actions"
      THEN Task("done", NoEvent, payload, body.prompt, NoContext)
      ELSE IF payload.threadTs \notin DOMAIN threadContexts
      THEN Task("respondNoContext", NoEvent, payload, body.prompt, NoContext)
      ELSE LET context == threadContexts[payload.threadTs]
               t == Task("done", NoEvent, payload, body.prompt, context)
           IN  CASE payload.action = "category_select" ->
                      [t EXCEPT !.pc = "categoryFile"]
                 [] payload.action = "duplicate_resolve" /\ payload.data = "update" ->
                      \* `context.potentialDuplicate!` of a resolved thread is
                      \* undefined, and reading its pageId throws
                      IF context.potentialDuplicate = NoDuplicate
                      THEN [t EXCEPT !.pc = "crashed", !.failed = TRUE,
                                     !.outcome = "crashed", !.context = NoContext]
                      ELSE [t EXCEPT !.pc = "resolveUpdatePage"]
                 [] payload.action = "duplicate_resolve" ->
                      [t EXCEPT !.pc = "resolveFile"]
                 [] payload.action = "thread_option" ->
                      [t EXCEPT !.pc = "respondGuidance"]
                 [] OTHER -> t

\* what fetch answers and which handler it starts, if any
fetchOutcome(request, threadContexts) ==
  LET none == Task("", NoEvent, NoPayload, NoPrompt, NoContext)
      body == request.body
  IN  IF request.method # "POST"
        THEN [response |-> Response(405, "Method not allowed"), task |-> none]
      ELSE IF ~request.hasTimestamp \/ ~request.hasSignature
        THEN [response |-> Response(401, "Missing signature headers"), task |-> none]
      ELSE IF ~verifySignature(body, request.timestamp, request.signature, SIGNING_SECRET)
        THEN [response |-> Response(401, "Invalid signature"), task |-> none]
      ELSE IF request.interaction
        THEN [response |-> Response(200, "OK"),
              task |-> startSlackInteraction(body, threadContexts)]
      ELSE IF body.type \in {"invalid_json", "block_actions"}
        THEN [response |-> Response(400, "Invalid JSON"), task |-> none]
      ELSE IF body.type = "url_verification"
        THEN [response |-> Response(200, "challenge"), task |-> none]
      ELSE IF body.type = "event_callback"
        THEN [response |-> Response(200, "OK"),
              task |-> startSlackEvent(body.event, threadContexts)]
      ELSE [response |-> Response(400, "Unknown event type"), task |-> none]

\* fetch as it would be if it awaited the handler before answering: the answer
\* is given only when no handler is started
Fetch_awaits(request) ==
  LET out == fetchOutcome(request, state)
  IN  /\ out.task.pc # "" => Len(tasks) < network.cap
      /\ http' = IF out.task.pc # "" THEN http ELSE out.response
      /\ tasks' = IF out.task.pc # "" THEN Append(tasks, out.task) ELSE tasks
      /\ UNCHANGED <<state, storage, pages, inboxLog, prompts, failures, network, codec, search>>

\* SecondBrainAgent.fetch(request)
Fetch(request) ==
  LET out == fetchOutcome(request, state)
  IN  /\ out.task.pc # "" => Len(tasks) < network.cap
      /\ http' = out.response
      /\ tasks' = IF out.task.pc # "" THEN Append(tasks, out.task) ELSE tasks
      /\ UNCHANGED <<state, storage, pages, inboxLog, prompts, failures, network, codec, search>>

\* ------------------------------------------------------------------ oracle
QUERY_CONFIDENCE == 60    \* percent: the least confidence of a query intent

\* the fields the oracle extracts, one sample for each category
FieldsOf(category) ==
  CASE category = "person" -> [nicknames |-> <<name_sammy>>, context |-> "cafe"]
    [] category = "project" -> [next_action |-> "call", notes |-> "n1"]
    [] category = "idea" -> [one_liner |-> "o1"]
    [] category = "admin" -> [due_date |-> "2024-01-15"]
    [] OTHER -> NoProps

\* an answer of the model that is not JSON: JSON.parse(content) throws
NotJSON == [syntaxError |-> TRUE]

\* The JSON answers of the model to the classification prompt.  The oracle is
\* free to name a category outside the enum, and to leave the name out.
ClassifyAnswers ==
  {Classification("person", conf, name_sam_lee, FieldsOf("person")) : conf \in {40, 60}}
  \cup {Classification(c, 60, name_sam_l, FieldsOf(c)) : c \in {"person", "note"}}
  \cup {Classification("project", conf, name_sam_l, FieldsOf("project")) : conf \in {60, 100}}
  \cup {Classification("note", 40, name_sam_l, NoProps),
        Classification("person", 40, <<>>, NoProps)}

\* the answers the model gives in the environment at hand
OracleAnswers ==
  IF "answers" \in DOMAIN network THEN network.answers ELSE ClassifyAnswers

\* classify(text, apiKey): the validation of the parsed answer
classifyValid(result) == ~(result.category = "" \/ result.name = <<>>)

MessageIntent(intent, confidence) == [intent |-> intent, confidence |-> confidence]
MessageIntentAnswers ==
  {MessageIntent("query", 60), MessageIntent("query", 50),
   MessageIntent("capture", 90), MessageIntent("chat", 90)}

detectMessageIntent_query(result) ==
  IF result.intent \notin {"capture", "query"} THEN MessageIntent("query", 60)
  ELSE result

\* detectMessageIntent(text, apiKey): the default for an unknown intent
detectMessageIntent(result) ==
  IF result.intent \notin {"capture", "query"} THEN MessageIntent("capture", 50)
  ELSE result

\* ----------------------------------------------------- agent: handler steps
At(k, pc) == k \in DOMAIN tasks /\ tasks[k].pc = pc
Called(t, name) == [t EXCEPT !.calls = Append(@, name)]
Posted(t, text) == [t EXCEPT !.posts = Append(@, text)]
Goto(t, pc) == [t EXCEPT !.pc = pc]
\* the handler has returned (pc "done") or an exception has left it (pc
\* "crashed"): its local variables are gone; what remains is what it was
\* started with and how it ended
Ended(t, pc, outcome) ==
  [Task(pc, t.event, t.payload, t.prompt, NoContext)
     EXCEPT !.wrote = t.wrote, !.failed = t.failed, !.outcome = outcome]
Finished(t, outcome) == Ended(t, "done", outcome)
\* an exception thrown to the catch block at pc, or out of the handler
Threw(t, pc) ==
  IF pc = "crashed" THEN Ended([t EXCEPT !.failed = TRUE], pc, "crashed")
  ELSE [t EXCEPT !.pc = pc, !.failed = TRUE]

\* an outbound call fails
CallFails == failures < network.failures /\ failures' = failures + 1
CallReturns == failures' = failures

\* constructor(ctx, env): the threadContexts of a new instance, given what is
\* stored under the key 'state' (`if (stored) this.state = stored`)
constructor(stored) == stored

\* updateState(newState): this.state is assigned, then storage.put is awaited;
\* put may throw after the assignment
updateStateOk(newContexts) == state' = newContexts /\ storage' = newContexts
updateStateThrows(newContexts) ==
  state' = newContexts /\ storage' = storage /\ CallFails

\* handleSlackEvent: the answer of detectMessageIntent, which throws when the
\* call fails and when the answer is NotJSON
DetectMessageIntent(k) ==
  /\ At(k, "detectMessageIntent")
  /\ LET t == Called(tasks[k], "detectMessageIntent")
     IN  \/ \E answer \in MessageIntentAnswers :
               LET intent == detectMessageIntent(answer)
               IN  /\ tasks' = [tasks EXCEPT ![k] =
                        IF intent.intent = "query" /\ intent.confidence >= QUERY_CONFIDENCE
                        THEN Goto([t EXCEPT !.intent = intent], "addReactionMag")
                        ELSE Goto([t EXCEPT !.intent = intent], "addReactionCheck")]
                   /\ CallReturns
         \* JSON.parse throws: the catch falls through to processNewMessage
         \/ /\ CallReturns
            /\ tasks' = [tasks EXCEPT ![k] = Goto(t, "addReactionCheck")]
         \/ /\ CallFails
            /\ tasks' = [tasks EXCEPT ![k] = Goto(t, "addReactionCheck")]
  /\ UNCHANGED <<state, storage, pages, inboxLog, prompts, http, network, codec, search>>

\* processNewMessage: addReaction(white_check_mark); a failure is caught
AddReactionCheck(k) ==
  /\ At(k, "addReactionCheck")
  /\ tasks' = [tasks EXCEPT ![k] =
       Goto([Called(tasks[k], "addReaction") EXCEPT !.intent = NoIntent], "classify")]
  /\ (CallReturns \/ CallFails)
  /\ UNCHANGED <<state, storage, pages, inboxLog, prompts, http, network, codec, search>>

\* processNewMessage: classify(text)
Classify(k) ==
  /\ At(k, "classify")
  /\ LET t == Called(tasks[k], "classify")
     IN  \/ \E answer \in OracleAnswers \cup {NotJSON} :
               /\ tasks' = [tasks EXCEPT ![k] =
                    IF answer # NotJSON /\ classifyValid(answer)
                    THEN Goto([t EXCEPT !.classification = answer], "createInboxLog")
                    ELSE Threw(t, "postError")]
               /\ CallReturns
         \/ /\ CallFails
            /\ tasks' = [tasks EXCEPT ![k] = Threw(t, "postError")]
  /\ UNCHANGED <<state, storage, pages, inboxLog, prompts, http, network, codec, search>>

InboxRow_category(text, classification) ==
  [record_name |-> classification.name, captured_text |-> text,
   confidence |-> classification.confidence, destination |-> classification.category]

\* the row processNewMessage writes to the audit collection
InboxRow(text, classification) ==
  [record_name |-> classification.name, captured_text |-> text,
   confidence |-> classification.confidence,
   destination |-> IF classification.confidence >= CONFIDENCE_THRESHOLD
                   THEN classification.category ELSE "needs_review"]

\* processNewMessage: createInboxLog, then the confidence gate
CreateInboxLog(k) ==
  /\ At(k, "createInboxLog")
  /\ LET t == Called(tasks[k], "createInboxLog")
         classification == t.classification
     IN  \/ /\ CallReturns
            /\ inboxLog' = inboxLog \cup
                 {[task |-> k, row |-> InboxRow(t.event.text, classification)]}
            /\ tasks' = [tasks EXCEPT ![k] =
                 IF classification.confidence < CONFIDENCE_THRESHOLD
                 THEN Goto(t, "postCategoryPrompt")
                 ELSE Goto(t, "searchForDuplicates")]
         \/ /\ CallFails
            /\ inboxLog' = inboxLog
            /\ tasks' = [tasks EXCEPT ![k] = Threw(t, "postError")]
  /\ UNCHANGED <<state, storage, pages, prompts, http, network, codec, search>>

\* the ThreadContext processNewMessage stores on its three paths.  On the two
\* prompt paths `text` is the fallback text of the prompt: the destructuring
\* `const { blocks, text } = build...Blocks(...)` shadows the message text.
lowConfidenceContext_confirmed(k, t) ==
  ThreadContext(buildCategorySelectionBlocks(t.classification.confidence, t.event.ts).text,
                [t.classification EXCEPT !.confidence = USER_CONFIRMED],
                undefined, NoDuplicate, <<>>, k)

lowConfidenceContext(k, t) ==
  ThreadContext(buildCategorySelectionBlocks(t.classification.confidence, t.event.ts).text,
                t.classification, undefined, NoDuplicate, <<>>, k)

duplicateContext_adopted(k, t) ==
  LET duplicate == t.duplicates[1]
  IN  ThreadContext(buildDuplicateResolutionBlocks(t.classification.category,
                                                   duplicate.name, t.event.ts).text,
                    t.classification, duplicate.pageId, NoDuplicate, <<>>, k)

duplicateContext(k, t) ==
  LET duplicate == t.duplicates[1]
  IN  ThreadContext(buildDuplicateResolutionBlocks(t.classification.category,
                                                   duplicate.name, t.event.ts).text,
                    t.classification, undefined,
                    PotentialDuplicate(duplicate.pageId, duplicate.name,
                                       duplicate.category, duplicate.score),
                    <<>>, k)

filedContext(k, t) ==
  ThreadContext(Raw(t.event.text), t.classification, t.pageId, NoDuplicate, <<>>, k)

\* A message sent to the thread (call already noted in t) and followed by
\* updateState: the send fails and control goes to pc `sendCatch`, or both
\* succeed, or storage.put throws and control goes to pc `catch` ("crashed"
\* outside any try).  `removed` is the prompt the message replaces.
SendThenUpdate(k, t, text, removed, threadTs, context, outcome, sendCatch, catch) ==
  LET sent == [Posted(Called(t, "storage.put"), text) EXCEPT !.wrote = TRUE]
  IN  \/ /\ CallFails
         /\ tasks' = [tasks EXCEPT ![k] = Threw(t, sendCatch)]
         /\ UNCHANGED <<state, storage, prompts>>
      \/ /\ CallReturns
         /\ prompts' = prompts \ removed
         /\ updateStateOk(withContext(state, threadTs, context))
         /\ tasks' = [tasks EXCEPT ![k] = Finished(sent, outcome)]
      \/ /\ prompts' = prompts \ removed
         /\ updateStateThrows(withContext(state, threadTs, context))
         /\ tasks' = [tasks EXCEPT ![k] = Threw(sent, catch)]

\* postMessageWithBlocks(...): the chat shows the prompt, and its buttons can
\* be clicked, while the handler still awaits the response of the call
ShowPrompt(k, text, prompt, next, catch) ==
  /\ LET t == Called(tasks[k], "postMessageWithBlocks")
     IN  \/ /\ CallReturns
            /\ prompts' = prompts \cup {prompt}
            /\ tasks' = [tasks EXCEPT ![k] = Goto(Posted(t, text), next)]
         \/ /\ CallFails
            /\ prompts' = prompts
            /\ tasks' = [tasks EXCEPT ![k] = Threw(t, catch)]
  /\ UNCHANGED <<state, storage, pages, inboxLog, http, network, codec, search>>

\* the response of the post has arrived: updateState with the context
StoreContext(k, threadTs, context, outcome, catch) ==
  /\ LET t == [Called(tasks[k], "storage.put") EXCEPT !.wrote = TRUE]
     IN  \/ /\ CallReturns
            /\ updateStateOk(withContext(state, threadTs, context))
            /\ tasks' = [tasks EXCEPT ![k] = Finished(t, outcome)]
         \/ /\ updateStateThrows(withContext(state, threadTs, context))
            /\ tasks' = [tasks EXCEPT ![k] = Threw(t, catch)]
  /\ UNCHANGED <<pages, inboxLog, prompts, http, network, codec, search>>

\* processNewMessage: the category prompt
PostCategoryPrompt(k) ==
  /\ At(k, "postCategoryPrompt")
  /\ LET t == tasks[k]
     IN  ShowPrompt(k, buildCategorySelectionBlocks(t.classification.confidence, t.event.ts).text,
                    Prompt("category", t.event.ts, FALSE), "storeLowConfidence", "postError")

\* processNewMessage: the context of a capture that awaits its category
StoreLowConfidence(k) ==
  /\ At(k, "storeLowConfidence")
  /\ StoreContext(k, tasks[k].event.ts, lowConfidenceContext(k, tasks[k]), "low", "postError")

strongDuplicate_any(duplicates) == Len(duplicates) > 0

strongDuplicate_inclusive(duplicates) ==
  Len(duplicates) > 0 /\ ~greater(P80, duplicates[1].score)

\* the duplicate gate: the top match is a strong one
strongDuplicate(duplicates) ==
  Len(duplicates) > 0 /\ greater(duplicates[1].score, P80)

\* processNewMessage: searchForDuplicates, then the duplicate gate
SearchForDuplicates(k) ==
  /\ At(k, "searchForDuplicates")
  /\ LET t == Called(tasks[k], "searchForDuplicates")
         category == t.classification.category
         duplicates == searchForDuplicates(pages, t.classification.name, category)
     IN  \/ /\ CallReturns
            /\ tasks' = [tasks EXCEPT ![k] =
                 IF getDatabaseId(category) = "undefined" THEN Threw(t, "postError")
                 ELSE Goto([t EXCEPT !.duplicates = duplicates],
                           IF strongDuplicate(duplicates)
                           THEN "postDuplicatePrompt" ELSE "fileToNotion")]
         \/ /\ CallFails
            /\ tasks' = [tasks EXCEPT ![k] = Threw(t, "postError")]
  /\ UNCHANGED <<state, storage, pages, inboxLog, prompts, http, network, codec, search>>

\* processNewMessage: the duplicate prompt
PostDuplicatePrompt(k) ==
  /\ At(k, "postDuplicatePrompt")
  /\ LET t == tasks[k]
     IN  ShowPrompt(k, buildDuplicateResolutionBlocks(t.classification.category,
                                                      t.duplicates[1].name, t.event.ts).text,
                    Prompt("duplicate", t.event.ts, FALSE), "storeDuplicate", "postError")

\* processNewMessage: the context of a capture with a pending duplicate
StoreDuplicate(k) ==
  /\ At(k, "storeDuplicate")
  /\ StoreContext(k, tasks[k].event.ts, duplicateContext(k, tasks[k]), "duplicate", "postError")

\* fileToNotion(classification) as a step of task k: the page is created and
\* its id kept, or the call throws (always for a category outside the enum)
FileToNotion(k, t, classification, next, catch) ==
  LET page == fileToNotionPage(classification)
      called == Called(t, "createPage")
  IN  IF page.db = "undefined"
      THEN /\ CallReturns
           /\ pages' = pages
           /\ tasks' = [tasks EXCEPT ![k] = Threw(t, catch)]
      ELSE \/ /\ CallReturns
              /\ pages' = Append(pages, page)
              /\ tasks' = [tasks EXCEPT ![k] =
                   Goto([called EXCEPT !.pageId = Len(pages) + 1,
                                       !.created = Append(@, Len(pages) + 1)], next)]
           \/ /\ CallFails
              /\ pages' = pages
              /\ tasks' = [tasks EXCEPT ![k] = Threw(called, catch)]

\* processNewMessage: fileToNotion(classification)
FileCapture(k) ==
  /\ At(k, "fileToNotion")
  /\ FileToNotion(k, tasks[k], tasks[k].classification,
                  IF tasks[k].classification.confidence = 100
                  THEN "addReaction100" ELSE "postConfirmation",
                  "postError")
  /\ UNCHANGED <<state, storage, inboxLog, prompts, http, network, codec, search>>

\* processNewMessage: addReaction(100); a failure is caught
AddReaction100(k) ==
  /\ At(k, "addReaction100")
  /\ tasks' = [tasks EXCEPT ![k] = Goto(Called(tasks[k], "addReaction"), "postConfirmation")]
  /\ (CallReturns \/ CallFails)
  /\ UNCHANGED <<state, storage, pages, inboxLog, prompts, http, network, codec, search>>

confirmationMsg_plain(t) ==
  formatConfirmation(t.classification.category, t.classification.name,
                     t.classification.confidence)

\* the confirmation of a filed capture, with the note on weaker matches: the
\* names of the matches, joined
confirmationMsg(t) ==
  LET c == t.classification
      msg == formatConfirmation(c.category, c.name, c.confidence)
  IN  IF Len(t.duplicates) > 0
      THEN [template |-> "Filed as (Note: Similar entries exist)",
            category |-> msg.category, name |-> msg.name, number |-> msg.number,
            similar |-> [i \in 1..Len(t.duplicates) |-> t.duplicates[i].name]]
      ELSE msg

\* processNewMessage: the confirmation, then the context of the thread
PostConfirmation(k) ==
  /\ At(k, "postConfirmation")
  /\ LET t == Called(tasks[k], "postMessage")
     IN  SendThenUpdate(k, t, confirmationMsg(t), {}, t.event.ts,
                        filedContext(k, t), "filed", "postError", "postError")
  /\ UNCHANGED <<pages, inboxLog, http, network, codec, search>>

\* processNewMessage: the catch block posts the error; a failure is caught
PostError(k) ==
  /\ At(k, "postError")
  /\ LET t == Called(tasks[k], "postMessage")
     IN  \/ /\ CallReturns
            /\ tasks' = [tasks EXCEPT ![k] =
                 Finished(Posted(t, Text("Error processing message", "", <<>>, 0)), "error")]
         \/ /\ CallFails
            /\ tasks' = [tasks EXCEPT ![k] = Finished(t, "error")]
  /\ UNCHANGED <<state, storage, pages, inboxLog, prompts, http, network, codec, search>>

\* -------------------------------------------------- agent: handleThreadReply
\* ThreadIntent: the intent and the details the oracle gives with it
ThreadIntent(intent, details) == [intent |-> intent, details |-> details]

ThreadIntentAnswers ==
  {ThreadIntent("correct_category", [newCategory |-> c]) : c \in {"person", "project"}}
  \cup {ThreadIntent("update_field", [field |-> "name", value |-> name_sammy]),
        \* "status" is a field of project and admin, not of person or idea
        ThreadIntent("update_field", [field |-> "status", value |-> "done"]),
        ThreadIntent("add_context", [context |-> "more"]),
        ThreadIntent("create_related", [category |-> "idea", name |-> name_sam_l]),
        ThreadIntent("create_related", [category |-> "idea"]),
        ThreadIntent("query", [question |-> "q1"]),
        ThreadIntent("unclear", NoProps),
        ThreadIntent("banana", NoProps)}

validIntents ==
  {"correct_category", "update_field", "add_context", "create_related", "query", "unclear"}

\* detectThreadIntent(...): the default for an unknown intent
detectThreadIntent(result) ==
  IF result.intent \notin validIntents THEN ThreadIntent("unclear", NoProps) ELSE result

\* the context handleThreadReply and the button handlers store:
\* `{...context, ...changes}`, context being the copy read when the handler
\* started
assistant(messages, botResponse) == Append(messages, ThreadMessage("assistant", botResponse))

\* handleThreadReply: no context for the thread; the post is outside any try
PostNoContext(k) ==
  /\ At(k, "postNoContext")
  /\ LET t == Called(tasks[k], "postMessage")
     IN  \/ /\ CallReturns
            /\ tasks' = [tasks EXCEPT ![k] =
                 Finished(Posted(t, Text("I don't have context for this thread", "", <<>>, 0)),
                          "nocontext")]
         \/ /\ CallFails
            /\ tasks' = [tasks EXCEPT ![k] = Threw(t, "crashed")]
  /\ UNCHANGED <<state, storage, pages, inboxLog, prompts, http, network, codec, search>>

\* a patch of an existing page as a step of task k
UpdatePage(k, t, pageId, properties, next, catch) ==
  LET called == Called(t, "updatePage")
  IN  \/ /\ CallReturns
         /\ pages' = updatePage(pages, pageId, properties)
         /\ tasks' = [tasks EXCEPT ![k] = Goto(called, next)]
      \/ /\ CallFails
         /\ pages' = pages
         /\ tasks' = [tasks EXCEPT ![k] = Threw(called, catch)]

\* handleDuplicateUpdate: updatePage(duplicate.pageId, properties)
DuplicateUpdate(k) ==
  /\ At(k, "duplicateUpdate")
  /\ LET t == tasks[k]
         duplicate == t.context.potentialDuplicate
     IN  UpdatePage(k, [t EXCEPT !.botResponse =
                          Text("Updated existing", duplicate.category, duplicate.name, 0)],
                    duplicate.pageId, buildUpdateProperties(t.context.classification),
                    "duplicateUpdatePost", "crashed")
  /\ UNCHANGED <<state, storage, inboxLog, prompts, http, network, codec, search>>

\* handleDuplicateUpdate: the reply, then the resolved context
DuplicateUpdatePost(k) ==
  /\ At(k, "duplicateUpdatePost")
  /\ LET t == Called(tasks[k], "postMessage")
         context == t.context
     IN  SendThenUpdate(k, t, t.botResponse, {}, t.event.thread_ts,
           [context EXCEPT !.notionPageId = context.potentialDuplicate.pageId,
                           !.potentialDuplicate = NoDuplicate,
                           !.messages = assistant(t.updatedMessages, t.botResponse)],
           "updated", "crashed", "crashed")
  /\ UNCHANGED <<pages, inboxLog, http, network, codec, search>>

\* handleDuplicateNew: fileToNotion(context.classification)
DuplicateNew(k) ==
  /\ At(k, "duplicateNew")
  /\ LET c == tasks[k].context.classification
     IN  FileToNotion(k, [tasks[k] EXCEPT !.botResponse =
                            formatConfirmation(c.category, c.name, c.confidence)],
                      c, "duplicateNewPost", "crashed")
  /\ UNCHANGED <<state, storage, inboxLog, prompts, http, network, codec, search>>

\* handleDuplicateNew: the reply, then the resolved context
DuplicateNewPost(k) ==
  /\ At(k, "duplicateNewPost")
  /\ LET t == Called(tasks[k], "postMessage")
     IN  SendThenUpdate(k, t, t.botResponse, {}, t.event.thread_ts,
           [t.context EXCEPT !.notionPageId = t.pageId,
                             !.potentialDuplicate = NoDuplicate,
                             !.messages = assistant(t.updatedMessages, t.botResponse)],
           "created", "crashed", "crashed")
  /\ UNCHANGED <<pages, inboxLog, http, network, codec, search>>

\* a details entry that is present and truthy
given(details, key) == key \in DOMAIN details

\* buildFieldUpdateProperties(field, value, category)
fieldMapping(category) ==
  CASE category = "person" ->
         [name |-> "Name", context |-> "Context", follow_ups |-> "Follow-ups",
          nicknames |-> "Nicknames"]
    [] category = "project" ->
         [name |-> "Name", next_action |-> "Next Action", notes |-> "Notes",
          status |-> "Status"]
    [] category = "idea" -> [name |-> "Name", one_liner |-> "One-liner", notes |-> "Notes"]
    [] category = "admin" -> [name |-> "Name", due_date |-> "Due Date", status |-> "Status"]
    [] OTHER -> NoProps

buildFieldUpdateProperties_touched(field, value, category) ==
  LET notionField == IF field \in DOMAIN fieldMapping(category)
                     THEN fieldMapping(category)[field] ELSE field
  IN  (notionField :> value) @@ ("Last Touched" :> TODAY)

buildFieldUpdateProperties(field, value, category) ==
  LET notionField == IF field \in DOMAIN fieldMapping(category)
                     THEN fieldMapping(category)[field] ELSE field
  IN  notionField :> value

relatedClassification_project(details) ==
  Classification("project", RELATED_CONFIDENCE, details.name,
                 IF given(details, "fields") THEN details.fields
                 ELSE [name |-> details.name])

\* the record create_related files
relatedClassification(details) ==
  Classification(details.category, RELATED_CONFIDENCE, details.name,
                 IF given(details, "fields") THEN details.fields
                 ELSE [name |-> details.name])

correctCategory_always(details, category) == given(details, "newCategory")

\* correct_category: `if (newCategory && newCategory !== category)`
correctCategory(details, category) ==
  given(details, "newCategory") /\ details.newCategory # category

correctedClassification_kept(classification, newCategory) ==
  [classification EXCEPT !.confidence = USER_CONFIRMED]

\* correct_category: `{...context.classification, category: newCategory,
\* confidence: 0.95}`
correctedClassification(classification, newCategory) ==
  [classification EXCEPT !.category = newCategory, !.confidence = USER_CONFIRMED]

\* handleThreadReply: the answer of detectThreadIntent and the switch on it, up
\* to the next await
DetectThreadIntent(k) ==
  /\ At(k, "detectThreadIntent")
  /\ LET t == Called(tasks[k], "detectThreadIntent")
         context == t.context
         category == context.classification.category
     IN  \/ \E answer \in ThreadIntentAnswers :
               LET intent == detectThreadIntent(answer)
                   details == intent.details
                   u == [t EXCEPT !.intent = intent]
                   say(text) == Goto([u EXCEPT !.botResponse = text], "postBotResponse")
               IN  /\ CallReturns
                   /\ tasks' = [tasks EXCEPT ![k] =
                        CASE intent.intent = "correct_category" ->
                               IF correctCategory(details, category)
                               THEN Goto(u, "correctFile")
                               ELSE say(Text("Already categorized as", category, <<>>, 0))
                          [] intent.intent = "update_field" ->
                               IF context.notionPageId # undefined
                                  /\ given(details, "field") /\ given(details, "value")
                               THEN Goto(u, "fieldUpdatePage")
                               ELSE say(Text("I couldn't update the field", "", <<>>, 0))
                          [] intent.intent = "add_context" ->
                               IF context.notionPageId # undefined /\ given(details, "context")
                               THEN Goto(u, "contextUpdatePage")
                               ELSE say(Text("I couldn't add context", "", <<>>, 0))
                          [] intent.intent = "create_related" ->
                               IF given(details, "category") /\ given(details, "name")
                               THEN Goto(u, "relatedFile")
                               ELSE say(Text("I couldn't create a related entry", "", <<>>, 0))
                          [] intent.intent = "query" -> Goto(u, "querySearch")
                          [] OTHER -> Goto(u, "postOptions")]
         \* the answer is NotJSON: JSON.parse throws
         \/ /\ CallReturns
            /\ tasks' = [tasks EXCEPT ![k] = Threw(t, "postRephrase")]
         \/ /\ CallFails
            /\ tasks' = [tasks EXCEPT ![k] = Threw(t, "postRephrase")]
  /\ UNCHANGED <<state, storage, pages, inboxLog, prompts, http, network, codec, search>>

\* An outbound call (already noted in tOk and tFail) that leaves the store as
\* newPages and is followed by updateState, in a try whose catch is at pc
\* `catch`: the call fails, or both succeed, or storage.put throws
CallThenUpdate(k, tOk, tFail, newPages, threadTs, context, next, catch) ==
  LET put == [Called(tOk, "storage.put") EXCEPT !.wrote = TRUE]
  IN  \/ /\ CallFails
         /\ tasks' = [tasks EXCEPT ![k] = Threw(tFail, catch)]
         /\ UNCHANGED <<state, storage, pages>>
      \/ /\ CallReturns
         /\ pages' = newPages
         /\ updateStateOk(withContext(state, threadTs, context))
         /\ tasks' = [tasks EXCEPT ![k] = Goto(put, next)]
      \/ /\ pages' = newPages
         /\ updateStateThrows(withContext(state, threadTs, context))
         /\ tasks' = [tasks EXCEPT ![k] = Threw(put, catch)]

\* task t after fileToNotion created the page with the next id of the store
Created(t) ==
  [Called(t, "createPage") EXCEPT !.pageId = Len(pages) + 1,
                                  !.created = Append(@, Len(pages) + 1)]

\* handleThreadReply, correct_category: fileToNotion(updatedClassification),
\* then the corrected context
CorrectFile(k) ==
  /\ At(k, "correctFile")
  /\ LET t == tasks[k]
         newCategory == t.intent.details.newCategory
         updatedClassification ==
           correctedClassification(t.context.classification, newCategory)
         botResponse == Text("Got it. Moved to", capitalize(newCategory),
                             updatedClassification.name, 0)
         u == [t EXCEPT !.botResponse = botResponse]
     IN  CallThenUpdate(k, Created(u), Called(t, "createPage"),
           Append(pages, fileToNotionPage(updatedClassification)), t.event.thread_ts,
           [t.context EXCEPT !.classification = updatedClassification,
                             !.notionPageId = Len(pages) + 1,
                             !.messages = assistant(t.updatedMessages, botResponse)],
           "postBotResponse", "postRephrase")
  /\ UNCHANGED <<inboxLog, prompts, http, network, codec, search>>

\* handleThreadReply, update_field: updatePage with the one mapped property
FieldUpdatePage(k) ==
  /\ At(k, "fieldUpdatePage")
  /\ LET t == tasks[k]
         details == t.intent.details
         properties == buildFieldUpdateProperties(details.field, details.value,
                                                  t.context.classification.category)
         botResponse == Text("Updated field", details.field, <<>>, 0)
         u == Called([t EXCEPT !.botResponse = botResponse], "updatePage")
     IN  CallThenUpdate(k, u, Called(t, "updatePage"),
           updatePage(pages, t.context.notionPageId, properties), t.event.thread_ts,
           [t.context EXCEPT !.messages = assistant(t.updatedMessages, botResponse)],
           "postBotResponse", "postRephrase")
  /\ UNCHANGED <<inboxLog, prompts, http, network, codec, search>>

\* handleThreadReply, add_context: updatePage with the note field
ContextUpdatePage(k) ==
  /\ At(k, "contextUpdatePage")
  /\ LET t == tasks[k]
         fieldName == IF t.context.classification.category = "person"
                      THEN "Context" ELSE "Notes"
         properties == fieldName :> t.intent.details.context
         botResponse == Text("Added context", "", <<>>, 0)
         u == Called([t EXCEPT !.botResponse = botResponse], "updatePage")
     IN  CallThenUpdate(k, u, Called(t, "updatePage"),
           updatePage(pages, t.context.notionPageId, properties), t.event.thread_ts,
           [t.context EXCEPT !.messages = assistant(t.updatedMessages, botResponse)],
           "postBotResponse", "postRephrase")
  /\ UNCHANGED <<inboxLog, prompts, http, network, codec, search>>

\* handleThreadReply, create_related: fileToNotion(relatedClassification)
RelatedFile(k) ==
  /\ At(k, "relatedFile")
  /\ LET t == tasks[k]
         related == relatedClassification(t.intent.details)
         botResponse == Text("Created related", related.category, related.name, 0)
         u == [t EXCEPT !.botResponse = botResponse]
     IN  CallThenUpdate(k, Created(u), Called(t, "createPage"),
           Append(pages, fileToNotionPage(related)), t.event.thread_ts,
           [t.context EXCEPT !.messages = assistant(t.updatedMessages, botResponse)],
           "postBotResponse", "postRephrase")
  /\ UNCHANGED <<inboxLog, prompts, http, network, codec, search>>

\* handleThreadReply: postMessage(botResponse) after the switch
PostBotResponse(k) ==
  /\ At(k, "postBotResponse")
  /\ LET t == Called(tasks[k], "postMessage")
     IN  \/ /\ CallReturns
            /\ tasks' = [tasks EXCEPT ![k] = Finished(Posted(t, t.botResponse), t.intent.intent)]
         \/ /\ CallFails
            /\ tasks' = [tasks EXCEPT ![k] = Threw(t, "postRephrase")]
  /\ UNCHANGED <<state, storage, pages, inboxLog, prompts, http, network, codec, search>>

\* handleThreadReply: the catch block posts; its failure is not caught
PostRephrase(k) ==
  /\ At(k, "postRephrase")
  /\ LET t == Called(tasks[k], "postMessage")
     IN  \/ /\ CallReturns
            /\ tasks' = [tasks EXCEPT ![k] =
                 Finished(Posted(t, Text("I had trouble understanding that", "", <<>>, 0)),
                          "error")]
         \/ /\ CallFails
            /\ tasks' = [tasks EXCEPT ![k] = Threw(t, "crashed")]
  /\ UNCHANGED <<state, storage, pages, inboxLog, prompts, http, network, codec, search>>

\* handleThreadReply, unclear: the options menu
PostOptions(k) ==
  /\ At(k, "postOptions")
  /\ LET t == tasks[k]
         hasDuplicate == t.context.potentialDuplicate # NoDuplicate
     IN  ShowPrompt(k, buildThreadOptionsBlocks(t.event.thread_ts, hasDuplicate).text,
                    Prompt("options", t.event.thread_ts, hasDuplicate),
                    "storeOptions", "postRephrase")

\* handleThreadReply, unclear: the context with the menu as the last message
StoreOptions(k) ==
  /\ At(k, "storeOptions")
  /\ LET t == tasks[k]
         hasDuplicate == t.context.potentialDuplicate # NoDuplicate
         built == buildThreadOptionsBlocks(t.event.thread_ts, hasDuplicate)
     IN  StoreContext(k, t.event.thread_ts,
           [t.context EXCEPT !.messages = assistant(t.updatedMessages, built.text)],
           "unclear", "postRephrase")

\* --------------------------------------------------------- agent: handleQuery
\* handleSlackEvent: addReaction(mag); a failure is caught
AddReactionMag(k) ==
  /\ At(k, "addReactionMag")
  /\ tasks' = [tasks EXCEPT ![k] =
       Goto([Called(tasks[k], "addReaction") EXCEPT !.intent = NoIntent], "querySearch")]
  /\ (CallReturns \/ CallFails)
  /\ UNCHANGED <<state, storage, pages, inboxLog, prompts, http, network, codec, search>>

\* handleQuery: searchAll(question)
QuerySearch(k) ==
  /\ At(k, "querySearch")
  /\ LET t == Called(tasks[k], "searchAll")
     IN  \/ CallReturns /\ tasks' = [tasks EXCEPT ![k] = Goto(t, "queryGenerate")]
         \/ CallFails /\ tasks' = [tasks EXCEPT ![k] = Goto(t, "queryPostError")]
  /\ UNCHANGED <<state, storage, pages, inboxLog, prompts, http, network, codec, search>>

\* handleQuery: generateQueryResponse(question, searchResultsText)
QueryGenerate(k) ==
  /\ At(k, "queryGenerate")
  /\ LET t == Called(tasks[k], "generateQueryResponse")
     IN  \/ CallReturns /\ tasks' = [tasks EXCEPT ![k] = Goto(t, "queryPost")]
         \/ CallFails /\ tasks' = [tasks EXCEPT ![k] = Goto(t, "queryPostError")]
  /\ UNCHANGED <<state, storage, pages, inboxLog, prompts, http, network, codec, search>>

\* handleQuery posts `text` and returns.  For a fresh message handleSlackEvent
\* then returns; for a thread reply handleThreadReply stores the context with
\* the user's reply.  A failed post goes to pc `sendCatch`.
QueryReturns(k, t, text, sendCatch) ==
  IF t.event.thread_ts = 0
  THEN /\ \/ /\ CallReturns
             /\ tasks' = [tasks EXCEPT ![k] = Finished(Posted(t, text), "query")]
          \/ /\ CallFails
             /\ tasks' = [tasks EXCEPT ![k] = Threw(t, sendCatch)]
       /\ UNCHANGED <<state, storage, prompts>>
  ELSE SendThenUpdate(k, t, text, {}, t.event.thread_ts,
                      [t.context EXCEPT !.messages = t.updatedMessages],
                      "query", sendCatch, "postRephrase")

\* handleQuery: postMessage(response)
QueryPost(k) ==
  /\ At(k, "queryPost")
  /\ QueryReturns(k, Called(tasks[k], "postMessage"),
                  Text("query response", "", <<>>, 0), "queryPostError")
  /\ UNCHANGED <<pages, inboxLog, http, network, codec, search>>

\* handleQuery: the catch block posts; its failure leaves handleQuery, into the
\* catch of the caller: handleSlackEvent goes on to processNewMessage,
\* handleThreadReply to its own catch block
QueryPostError(k) ==
  /\ At(k, "queryPostError")
  /\ QueryReturns(k, Called(tasks[k], "postMessage"),
                  Text("I had trouble searching your data", "", <<>>, 0),
                  IF tasks[k].event.thread_ts = 0 THEN "addReactionCheck"
                  ELSE "postRephrase")
  /\ UNCHANGED <<pages, inboxLog, http, network, codec, search>>

\* ------------------------------------------------- agent: button handlers
\* respondToInteraction(response_url, text, true) replaces the prompt clicked
\* handleSlackInteraction: no context for the thread of the button
RespondNoContext(k) ==
  /\ At(k, "respondNoContext")
  /\ LET t == Called(tasks[k], "respondToInteraction")
     IN  \/ /\ CallReturns
            /\ prompts' = prompts \ {t.prompt}
            /\ tasks' = [tasks EXCEPT ![k] =
                 Finished(Posted(t, Text("Sorry, I've lost context for this thread", "", <<>>, 0)),
                          "nocontext")]
         \/ /\ CallFails
            /\ prompts' = prompts
            /\ tasks' = [tasks EXCEPT ![k] = Threw(t, "crashed")]
  /\ UNCHANGED <<state, storage, pages, inboxLog, http, network, codec, search>>

\* the chosen category is filed with the confidence the oracle gave
CategoryFile_oracleConfidence(k) ==
  /\ At(k, "categoryFile")
  /\ LET t == tasks[k]
         newCategory == t.payload.data
         updatedClassification ==
           [t.context.classification EXCEPT !.category = newCategory]
         confirmation == formatConfirmation(newCategory, updatedClassification.name,
                                            USER_CONFIRMED)
         u == [t EXCEPT !.botResponse = confirmation]
     IN  CallThenUpdate(k, Created(u), Called(t, "createPage"),
           Append(pages, fileToNotionPage(updatedClassification)), t.payload.threadTs,
           [t.context EXCEPT !.classification = updatedClassification,
                             !.notionPageId = Len(pages) + 1],
           "categoryRespond", "crashed")
  /\ UNCHANGED <<inboxLog, prompts, http, network, codec, search>>

\* handleCategorySelectionButton: fileToNotion(updatedClassification), then the
\* context with the chosen category
CategoryFile(k) ==
  /\ At(k, "categoryFile")
  /\ LET t == tasks[k]
         newCategory == t.payload.data
         updatedClassification ==
           [t.context.classification EXCEPT !.category = newCategory,
                                            !.confidence = USER_CONFIRMED]
         confirmation == formatConfirmation(newCategory, updatedClassification.name,
                                            USER_CONFIRMED)
         u == [t EXCEPT !.botResponse = confirmation]
     IN  CallThenUpdate(k, Created(u), Called(t, "createPage"),
           Append(pages, fileToNotionPage(updatedClassification)), t.payload.threadTs,
           [t.context EXCEPT !.classification = updatedClassification,
                             !.notionPageId = Len(pages) + 1],
           "categoryRespond", "crashed")
  /\ UNCHANGED <<inboxLog, prompts, http, network, codec, search>>

Respond_keepsPrompt(k, outcome) ==
  LET t == Called(tasks[k], "respondToInteraction")
  IN  \/ /\ CallReturns
         /\ prompts' = prompts
         /\ tasks' = [tasks EXCEPT ![k] = Finished(Posted(t, t.botResponse), outcome)]
      \/ /\ CallFails
         /\ prompts' = prompts
         /\ tasks' = [tasks EXCEPT ![k] = Threw(t, "crashed")]

\* a button handler's last call: respondToInteraction(botResponse)
Respond(k, outcome) ==
  LET t == Called(tasks[k], "respondToInteraction")
  IN  \/ /\ CallReturns
         /\ prompts' = prompts \ {t.prompt}
         /\ tasks' = [tasks EXCEPT ![k] = Finished(Posted(t, t.botResponse), outcome)]
      \/ /\ CallFails
         /\ prompts' = prompts
         /\ tasks' = [tasks EXCEPT ![k] = Threw(t, "crashed")]

\* handleCategorySelectionButton: the confirmation replaces the prompt
CategoryRespond(k) ==
  /\ At(k, "categoryRespond")
  /\ Respond(k, "category_select")
  /\ UNCHANGED <<state, storage, pages, inboxLog, http, network, codec, search>>

\* handleThreadOptionButton: the guidance replaces the menu
RespondGuidance(k) ==
  /\ At(k, "respondGuidance")
  /\ LET t == [tasks[k] EXCEPT !.botResponse =
                 Text("guidance", tasks[k].payload.data, <<>>, 0)]
         called == Called(t, "respondToInteraction")
     IN  \/ /\ CallReturns
            /\ prompts' = prompts \ {t.prompt}
            /\ tasks' = [tasks EXCEPT ![k] = Finished(Posted(called, t.botResponse), "thread_option")]
         \/ /\ CallFails
            /\ prompts' = prompts
            /\ tasks' = [tasks EXCEPT ![k] = Threw(called, "crashed")]
  /\ UNCHANGED <<state, storage, pages, inboxLog, http, network, codec, search>>

\* handleDuplicateResolutionButton, update: updatePage(duplicate.pageId, ...)
ResolveUpdatePage(k) ==
  /\ At(k, "resolveUpdatePage")
  /\ LET t == tasks[k]
         duplicate == t.context.potentialDuplicate
     IN  UpdatePage(k, [t EXCEPT !.botResponse =
                          Text("Updated existing", duplicate.category, duplicate.name, 0)],
                    duplicate.pageId, buildUpdateProperties(t.context.classification),
                    "resolveUpdateRespond", "crashed")
  /\ UNCHANGED <<state, storage, inboxLog, prompts, http, network, codec, search>>

\* handleDuplicateResolutionButton, update: the response, then the context
ResolveUpdateRespond(k) ==
  /\ At(k, "resolveUpdateRespond")
  /\ LET t == Called(tasks[k], "respondToInteraction")
     IN  SendThenUpdate(k, t, t.botResponse, {t.prompt}, t.payload.threadTs,
           [t.context EXCEPT !.notionPageId = t.context.potentialDuplicate.pageId,
                             !.potentialDuplicate = NoDuplicate],
           "duplicate_update", "crashed", "crashed")
  /\ UNCHANGED <<pages, inboxLog, http, network, codec, search>>

\* handleDuplicateResolutionButton, new: fileToNotion(context.classification)
ResolveFile(k) ==
  /\ At(k, "resolveFile")
  /\ LET c == tasks[k].context.classification
     IN  FileToNotion(k, [tasks[k] EXCEPT !.botResponse =
                            formatConfirmation(c.category, c.name, c.confidence)],
                      c, "resolveNewRespond", "crashed")
  /\ UNCHANGED <<state, storage, inboxLog, prompts, http, network, codec, search>>

ResolveNewRespond_keepsDuplicate(k) ==
  /\ At(k, "resolveNewRespond")
  /\ LET t == Called(tasks[k], "respondToInteraction")
     IN  SendThenUpdate(k, t, t.botResponse, {t.prompt}, t.payload.threadTs,
           [t.context EXCEPT !.notionPageId = t.pageId],
           "duplicate_new", "crashed", "crashed")
  /\ UNCHANGED <<pages, inboxLog, http, network, codec, search>>

\* handleDuplicateResolutionButton, new: the response, then the context
ResolveNewRespond(k) ==
  /\ At(k, "resolveNewRespond")
  /\ LET t == Called(tasks[k], "respondToInteraction")
     IN  SendThenUpdate(k, t, t.botResponse, {t.prompt}, t.payload.threadTs,
           [t.context EXCEPT !.notionPageId = t.pageId,
                             !.potentialDuplicate = NoDuplicate],
           "duplicate_new", "crashed", "crashed")
  /\ UNCHANGED <<pages, inboxLog, http, network, codec, search>>

\* ------------------------------------------------------------ agent: alarm
\* alarm() up to its first await: the digest at 6 UTC, the review on Sunday at
\* 16 UTC, and then the next alarm
Alarm(hour, dayOfWeek) ==
  /\ network.alarm
  /\ Len(tasks) < network.cap
  /\ tasks' = Append(tasks,
       Task(IF hour = 6 THEN "digestProjects"
            ELSE IF dayOfWeek = 0 /\ hour = 16 THEN "reviewEntries"
            ELSE "setAlarm",
            NoEvent, NoPayload, NoPrompt, NoContext))
  /\ UNCHANGED <<state, storage, pages, inboxLog, prompts, http, failures, network, codec, search>>

\* a call inside the try of dailyDigest or weeklyReview: a failure is logged
\* and the function returns to alarm()
Scheduled(k, name, next) ==
  /\ \/ /\ CallReturns
        /\ tasks' = [tasks EXCEPT ![k] = Goto(Called(tasks[k], name), next)]
     \/ /\ CallFails
        /\ tasks' = [tasks EXCEPT ![k] = Threw(Called(tasks[k], name), "setAlarm")]
  /\ UNCHANGED <<state, storage, pages, inboxLog, prompts, http, network, codec, search>>

\* dailyDigest: the two queries, then the direct message
DigestProjects(k) == At(k, "digestProjects") /\ Scheduled(k, "queryDatabase", "digestPeople")
DigestPeople(k) == At(k, "digestPeople") /\ Scheduled(k, "queryDatabase", "digestSend")
DigestSend(k) == At(k, "digestSend") /\ Scheduled(k, "sendDM", "setAlarm")

\* weeklyReview: the two queries, then the direct message
ReviewEntries(k) == At(k, "reviewEntries") /\ Scheduled(k, "queryDatabase", "reviewProjects")
ReviewProjects(k) == At(k, "reviewProjects") /\ Scheduled(k, "queryDatabase", "reviewSend")
ReviewSend(k) == At(k, "reviewSend") /\ Scheduled(k, "sendDM", "setAlarm")

\* alarm(): storage.setAlarm is outside any try
SetAlarm(k) ==
  /\ At(k, "setAlarm")
  /\ LET t == Called(tasks[k], "storage.setAlarm")
     IN  \/ CallReturns /\ tasks' = [tasks EXCEPT ![k] = Finished(t, "alarm")]
         \/ CallFails /\ tasks' = [tasks EXCEPT ![k] = Threw(t, "crashed")]
  /\ UNCHANGED <<state, storage, pages, inboxLog, prompts, http, network, codec, search>>

\* ------------------------------------------------------------- environment
\* the bodies the chat platform sends: a message outside any thread (a ts names
\* one message), a reply in a thread, a click on a button of a visible prompt
Capture(ts) ==
  Body("event_callback", MessageEvent(FALSE, "", text_capture, ts, 0), NoPayload, NoPrompt)
Reply(threadTs, text) ==
  Body("event_callback", MessageEvent(FALSE, "", text, threadTs + MaxThreads, threadTs),
       NoPayload, NoPrompt)
Click(prompt, button) == Body("block_actions", NoEvent, button, prompt)
\* a message the agent itself posted in a thread, coming back as an event
Echo(threadTs) ==
  Body("event_callback", MessageEvent(TRUE, "", text_other, threadTs + 2 * MaxThreads, threadTs),
       NoPayload, NoPrompt)

PlatformBodies ==
  {Capture(ts) : ts \in {x \in 1..network.threads :
                            \A j \in DOMAIN tasks : tasks[j].event.ts # x}}
  \cup {Reply(ts, text) : ts \in 1..network.threads, text \in ReplyTexts}
  \cup UNION {{Click(prompt, button) : button \in ButtonsOf(prompt)} : prompt \in prompts}
  \cup {Echo(ts) : ts \in {x \in DOMAIN state :
                            \A j \in DOMAIN tasks : tasks[j].event # Echo(x).event}}

\* what the platform sends and the agent answers without starting work
OtherBodies ==
  {Body(type, NoEvent, NoPayload, NoPrompt) :
     type \in {"url_verification", "invalid_json", "app_rate_limited"}}
  \cup ({Body("event_callback", MessageEvent(bot, subtype, text, 1, 0), NoPayload, NoPrompt) :
           bot \in BOOLEAN, subtype \in {"", "message_changed", "file_share"},
           text \in {<<>>, text_capture}} \ {Capture(1)})

\* requests the platform did not sign as it signs them now
Forged(body) ==
  {[Signed(body) EXCEPT !.method = "GET"],
   [Signed(body) EXCEPT !.hasTimestamp = FALSE],
   [Signed(body) EXCEPT !.hasSignature = FALSE],
   [Signed(body) EXCEPT !.signature = hmac("guess", Now, body)],
   [Signed(body) EXCEPT !.signature = hmac(SIGNING_SECRET, Now, Reply(1, text_other))]}
  \cup {[Signed(body) EXCEPT !.timestamp = ts,
                             !.signature = hmac(SIGNING_SECRET, ts, body)] :
          ts \in {Now - MAX_SKEW - 1, Now - MAX_SKEW, Now + MAX_SKEW, Now + MAX_SKEW + 1}}

\* a request as the tests of the agent issue it: a POST with a Content-Type
\* header and neither of the two signature headers
Unsigned(body) ==
  [Signed(body) EXCEPT !.hasTimestamp = FALSE, !.hasSignature = FALSE]

Requests ==
  {Signed(body) : body \in PlatformBodies}
  \cup (IF network.forged
        THEN {Signed(body) : body \in OtherBodies}
             \cup {Unsigned(body) : body \in OtherBodies}
             \cup UNION {Forged(body) : body \in PlatformBodies \ {Reply(1, text_other)}}
        ELSE {})

\* ------------------------------------------------------------ specification
\* the store holds one person when the agent is constructed
StoredPages ==
  <<Page("person", createPerson(name_sam_lee, [nicknames |-> <<name_sammy>>]))>>

NoContexts == [ts \in {} |-> NoContext]

\* ---------------------------------------- services/slack: the payload codec
\* A JavaScript string is the sequence of its UTF-16 code units (surrogates
\* are left out).  A JSON value is a string or an object; an object is the
\* sequence of its members <<key, value>> in insertion order.
Str(chars) == [type |-> "string", chars |-> chars, members |-> <<>>]

Obj(members) == [type |-> "object", chars |-> <<>>, members |-> members]

\* what a call gives back: the value it returns, or an exception
Returns(value) == [threw |-> FALSE, value |-> value]

Throws == [threw |-> TRUE, value |-> <<>>]

\* the code units of the string literals of the payloads
lit(s) ==
  CASE s = "action" -> <<97, 99, 116, 105, 111, 110>>
    [] s = "threadTs" -> <<116, 104, 114, 101, 97, 100, 84, 115>>
    [] s = "channel" -> <<99, 104, 97, 110, 110, 101, 108>>
    [] s = "data" -> <<100, 97, 116, 97>>
    [] s = "category" -> <<99, 97, 116, 101, 103, 111, 114, 121>>
    [] s = "resolution" -> <<114, 101, 115, 111, 108, 117, 116, 105, 111, 110>>
    [] s = "option" -> <<111, 112, 116, 105, 111, 110>>
    [] s = "category_select" -> <<99, 97, 116, 101, 103, 111, 114, 121, 95, 115, 101, 108, 101, 99, 116>>
    [] s = "duplicate_resolve" -> <<100, 117, 112, 108, 105, 99, 97, 116, 101, 95, 114, 101, 115, 111, 108, 118, 101>>
    [] s = "thread_option" -> <<116, 104, 114, 101, 97, 100, 95, 111, 112, 116, 105, 111, 110>>
    [] s = "person" -> <<112, 101, 114, 115, 111, 110>>
    [] s = "project" -> <<112, 114, 111, 106, 101, 99, 116>>
    [] s = "idea" -> <<105, 100, 101, 97>>
    [] s = "admin" -> <<97, 100, 109, 105, 110>>
    [] s = "update" -> <<117, 112, 100, 97, 116, 101>>
    [] s = "new" -> <<110, 101, 119>>
    [] s = "change_category" -> <<99, 104, 97, 110, 103, 101, 95, 99, 97, 116, 101, 103, 111, 114, 121>>
    [] s = "edit_fields" -> <<101, 100, 105, 116, 95, 102, 105, 101, 108, 100, 115>>
    [] s = "add_context" -> <<97, 100, 100, 95, 99, 111, 110, 116, 101, 120, 116>>

\* JSON.stringify, QuoteJSONString: the escape of one code unit
hexDigit(d) == IF d < 10 THEN 48 + d ELSE 87 + d

JSON_escape_raw(c) == <<c>>

JSON_escape(c) ==
  CASE c = 34 -> <<92, 34>>
    [] c = 92 -> <<92, 92>>
    [] c = 8 -> <<92, 98>>
    [] c = 9 -> <<92, 116>>
    [] c = 10 -> <<92, 110>>
    [] c = 12 -> <<92, 102>>
    [] c = 13 -> <<92, 114>>
    [] c < 32 /\ c \notin {8, 9, 10, 12, 13} ->
         <<92, 117, 48, 48, hexDigit(c \div 16), hexDigit(c % 16)>>
    [] OTHER -> <<c>>

RECURSIVE JSON_quoted(_)
JSON_quoted(chars) ==
  IF chars = <<>> THEN <<>> ELSE JSON_escape(Head(chars)) \o JSON_quoted(Tail(chars))

\* JSON.stringify of a string or an object of strings and objects: no white
\* space, members in insertion order
RECURSIVE JSON_stringify(_)
RECURSIVE stringifyMembers(_)
JSON_stringify(v) ==
  IF v.type = "string"
  THEN <<34>> \o JSON_quoted(v.chars) \o <<34>>
  ELSE <<123>> \o stringifyMembers(v.members) \o <<125>>

stringifyMembers(members) ==
  IF members = <<>>
  THEN <<>>
  ELSE <<34>> \o JSON_quoted(members[1][1]) \o <<34, 58>> \o JSON_stringify(members[1][2])
       \o (IF Len(members) > 1 THEN <<44>> \o stringifyMembers(Tail(members)) ELSE <<>>)

\* the base64 alphabet: A-Z a-z 0-9 + /
b64char(n) ==
  IF n < 26 THEN 65 + n
  ELSE IF n < 52 THEN 71 + n
  ELSE IF n < 62 THEN n - 4
  ELSE IF n = 62 THEN 43 ELSE 47

b64value(c) ==
  IF c >= 65 /\ c <= 90 THEN c - 65
  ELSE IF c >= 97 /\ c <= 122 THEN c - 71
  ELSE IF c >= 48 /\ c <= 57 THEN c + 4
  ELSE IF c = 43 THEN 62
  ELSE IF c = 47 THEN 63 ELSE -1

RECURSIVE base64(_)
base64(bytes) ==
  IF bytes = <<>>
  THEN <<>>
  ELSE LET n == Len(bytes)
           b1 == bytes[1]
           b2 == IF n >= 2 THEN bytes[2] ELSE 0
           b3 == IF n >= 3 THEN bytes[3] ELSE 0
       IN  << b64char(b1 \div 4),
              b64char((b1 % 4) * 16 + b2 \div 16),
              IF n >= 2 THEN b64char((b2 % 16) * 4 + b3 \div 64) ELSE 61,
              IF n >= 3 THEN b64char(b3 % 64) ELSE 61 >>
           \o (IF n > 3 THEN base64(SubSeq(bytes, 4, n)) ELSE <<>>)

\* btoa: InvalidCharacterError when a code unit is above 0xFF
btoa(s) ==
  IF \E i \in DOMAIN s : s[i] > 255 THEN Throws ELSE Returns(base64(s))

RECURSIVE bytesOf(_)
bytesOf(sextets) ==
  LET n == Len(sextets)
      v(i) == b64value(sextets[i])
  IN  IF n < 2
      THEN <<>>
      ELSE <<v(1) * 4 + v(2) \div 16>>
           \o (IF n >= 3 THEN <<(v(2) % 16) * 16 + v(3) \div 4>> ELSE <<>>)
           \o (IF n >= 4 THEN <<(v(3) % 4) * 64 + v(4)>> \o bytesOf(SubSeq(sextets, 5, n))
               ELSE <<>>)

\* atob: the padding is dropped from a text whose length is a multiple of
\* four; what is left must be of the alphabet and not one over a multiple
atob(s) ==
  LET n == Len(s)
      padding == IF n % 4 # 0 \/ n = 0 \/ s[n] # 61 THEN 0
                 ELSE IF s[n - 1] = 61 THEN 2 ELSE 1
      sextets == SubSeq(s, 1, n - padding)
  IN  IF Len(sextets) % 4 = 1 \/ \E i \in DOMAIN sextets : b64value(sextets[i]) = -1
      THEN Throws
      ELSE Returns(bytesOf(sextets))

\* JSON.parse of a text of strings and objects without white space.  A step
\* of the parser gives the value read and the position after it.
Read(value, next) == [ok |-> TRUE, value |-> value, next |-> next]

SyntaxError == [ok |-> FALSE, value |-> <<>>, next |-> 0]

fromHex(c) ==
  IF c >= 48 /\ c <= 57 THEN c - 48
  ELSE IF c >= 97 /\ c <= 102 THEN c - 87
  ELSE IF c >= 65 /\ c <= 70 THEN c - 55 ELSE -1

JSON_unescape(e) ==
  CASE e = 34 -> 34
    [] e = 92 -> 92
    [] e = 47 -> 47
    [] e = 98 -> 8
    [] e = 102 -> 12
    [] e = 110 -> 10
    [] e = 114 -> 13
    [] e = 116 -> 9
    [] OTHER -> -1

\* the characters of a string after its opening quote, from position j
RECURSIVE scanString(_, _, _)
scanString(s, j, acc) ==
  IF j > Len(s) THEN SyntaxError
  ELSE IF s[j] = 34 THEN Read(acc, j + 1)
  ELSE IF s[j] < 32 THEN SyntaxError
  ELSE IF s[j] # 92 THEN scanString(s, j + 1, Append(acc, s[j]))
  ELSE IF j + 1 > Len(s) THEN SyntaxError
  ELSE IF s[j + 1] = 117
       THEN IF j + 5 > Len(s) \/ \E i \in 2..5 : fromHex(s[j + i]) = -1
            THEN SyntaxError
            ELSE scanString(s, j + 6,
                   Append(acc, ((fromHex(s[j + 2]) * 16 + fromHex(s[j + 3])) * 16
                                + fromHex(s[j + 4])) * 16 + fromHex(s[j + 5])))
  ELSE IF JSON_unescape(s[j + 1]) = -1 THEN SyntaxError
  ELSE scanString(s, j + 2, Append(acc, JSON_unescape(s[j + 1])))

RECURSIVE parseValue(_, _)
RECURSIVE parseMembers(_, _, _)
parseValue(s, i) ==
  IF i > Len(s) THEN SyntaxError
  ELSE IF s[i] = 34
       THEN LET string == scanString(s, i + 1, <<>>)
            IN  IF string.ok THEN Read(Str(string.value), string.next) ELSE SyntaxError
  ELSE IF s[i] = 123
       THEN IF i + 1 <= Len(s) /\ s[i + 1] = 125
            THEN Read(Obj(<<>>), i + 2)
            ELSE parseMembers(s, i + 1, <<>>)
  ELSE SyntaxError

parseMembers(s, i, acc) ==
  IF i > Len(s) \/ s[i] # 34 THEN SyntaxError
  ELSE LET key == scanString(s, i + 1, <<>>)
       IN  IF ~key.ok \/ key.next > Len(s) \/ s[key.next] # 58 THEN SyntaxError
           ELSE LET member == parseValue(s, key.next + 1)
                    members == Append(acc, <<key.value, member.value>>)
                IN  IF ~member.ok \/ member.next > Len(s) THEN SyntaxError
                    ELSE IF s[member.next] = 44
                         THEN parseMembers(s, member.next + 1, members)
                    ELSE IF s[member.next] = 125
                         THEN Read(Obj(members), member.next + 1)
                    ELSE SyntaxError

JSON_parse(text) ==
  LET value == parseValue(text, 1)
  IN  IF value.ok /\ value.next = Len(text) + 1 THEN Returns(value.value) ELSE Throws

\* encodeButtonPayload: btoa(JSON.stringify(payload))
encodeButtonPayload(payload) == btoa(JSON_stringify(payload))

\* decodeButtonPayload: JSON.parse(atob(encoded))
decodeButtonPayload(encoded) ==
  LET text == atob(encoded)
  IN  IF text.threw THEN Throws ELSE JSON_parse(text.value)

\* a ButtonPayload as the object literal the builders write: action,
\* threadTs, channel, data, with `data` the members of the data object
ButtonPayloadObject(action, threadTs, channel, data) ==
  Obj(<< <<lit("action"), Str(action)>>,
         <<lit("threadTs"), Str(threadTs)>>,
         <<lit("channel"), Str(channel)>>,
         <<lit("data"), Obj(data)>> >>)

\* one member of a data object
Data(key, value) == << <<lit(key), Str(lit(value))>> >>

\* the `value` of the buttons of buildCategorySelectionBlocks
categoryElements(threadTs, channel) ==
  [i \in 1..4 |->
     encodeButtonPayload(ButtonPayloadObject(lit("category_select"), threadTs, channel,
       Data("category", <<"person", "project", "idea", "admin">>[i])))]

\* the `value` of the buttons of buildDuplicateResolutionBlocks
duplicateElements(threadTs, channel) ==
  [i \in 1..2 |->
     encodeButtonPayload(ButtonPayloadObject(lit("duplicate_resolve"), threadTs, channel,
       Data("resolution", <<"update", "new">>[i])))]

\* the `value` of the buttons of buildThreadOptionsBlocks
optionElements(threadTs, channel, hasDuplicate) ==
  [i \in 1..3 |->
     encodeButtonPayload(ButtonPayloadObject(lit("thread_option"), threadTs, channel,
       Data("option", <<"change_category", "edit_fields", "add_context">>[i])))]
  \o (IF hasDuplicate THEN duplicateElements(threadTs, channel) ELSE <<>>)

\* no call of the search functions is under way
NoSearch ==
  [pc |-> "idle", str1 |-> <<>>, str2 |-> <<>>, category |-> "", store |-> <<>>,
   score |-> ZERO, results |-> <<>>]

\* no payload is on its way
NoCodec ==
  [pc |-> "idle", payload |-> Obj(<<>>), builder |-> "", threadTs |-> <<>>, channel |-> <<>>,
   elements |-> <<>>, encoded |-> Throws, decoded |-> Throws]

Init ==
  /\ state = NoContexts
  /\ storage = NoContexts
  /\ pages = StoredPages
  /\ inboxLog = {}
  /\ prompts = {}
  /\ tasks = <<>>
  /\ http = Response(0, "")
  /\ failures = 0
  /\ network \in
       {[cap |-> MaxTasks, threads |-> 1, forged |-> FALSE, alarm |-> FALSE,
         failures |-> MaxFailures],
        [cap |-> MaxThreadTasks, threads |-> MaxThreads, forged |-> FALSE, alarm |-> FALSE,
         failures |-> MaxFailures],
        [cap |-> MaxProbeTasks, threads |-> 1, forged |-> TRUE, alarm |-> TRUE,
         failures |-> MaxProbeFailures]}
  /\ codec = NoCodec
  /\ search = NoSearch

Step(k) ==
  \/ DetectMessageIntent(k)
  \/ AddReactionCheck(k)
  \/ Classify(k)
  \/ CreateInboxLog(k)
  \/ PostCategoryPrompt(k)
  \/ StoreLowConfidence(k)
  \/ SearchForDuplicates(k)
  \/ PostDuplicatePrompt(k)
  \/ StoreDuplicate(k)
  \/ FileCapture(k)
  \/ AddReaction100(k)
  \/ PostConfirmation(k)
  \/ PostError(k)
  \/ PostNoContext(k)
  \/ DuplicateUpdate(k)
  \/ DuplicateUpdatePost(k)
  \/ DuplicateNew(k)
  \/ DuplicateNewPost(k)
  \/ DetectThreadIntent(k)
  \/ CorrectFile(k)
  \/ FieldUpdatePage(k)
  \/ ContextUpdatePage(k)
  \/ RelatedFile(k)
  \/ PostBotResponse(k)
  \/ PostRephrase(k)
  \/ PostOptions(k)
  \/ StoreOptions(k)
  \/ AddReactionMag(k)
  \/ QuerySearch(k)
  \/ QueryGenerate(k)
  \/ QueryPost(k)
  \/ QueryPostError(k)
  \/ RespondNoContext(k)
  \/ CategoryFile(k)
  \/ CategoryRespond(k)
  \/ RespondGuidance(k)
  \/ ResolveUpdatePage(k)
  \/ ResolveUpdateRespond(k)
  \/ ResolveFile(k)
  \/ ResolveNewRespond(k)
  \/ DigestProjects(k)
  \/ DigestPeople(k)
  \/ DigestSend(k)
  \/ ReviewEntries(k)
  \/ ReviewProjects(k)
  \/ ReviewSend(k)
  \/ SetAlarm(k)

Next ==
  \/ \E request \in Requests : Fetch(request)
  \/ \E hour \in {6, 16}, dayOfWeek \in {0, 1} : Alarm(hour, dayOfWeek)
  \/ \E k \in 1..MaxTasks : Step(k)

Spec == Init /\ [][Next]_vars

\* ------------------------------------------- the payload codec on its own
\* The strings a threadTs or a channel is drawn from: up to MaxChars code
\* units out of a digit, the two characters JSON escapes with a backslash, a
\* control character, a Latin-1 letter and a letter beyond Latin-1.
MaxChars == 2  \* length of the longest threadTs and channel

CodeUnits == {49, 34, 92, 10, 233, 26085}

Strings == UNION {[1..n -> CodeUnits] : n \in 0..MaxChars}

\* the data objects of the ButtonPayload type that hold at most one member
DataVariants ==
  {<<>>}
  \cup {Data("category", c) : c \in {"person", "project", "idea", "admin"}}
  \cup {Data("resolution", r) : r \in {"update", "new"}}
  \cup {Data("option", o) : o \in {"change_category", "edit_fields", "add_context"}}

ButtonActions == {lit("category_select"), lit("duplicate_resolve"), lit("thread_option")}

CodecInit ==
  /\ state = NoContexts
  /\ storage = NoContexts
  /\ pages = StoredPages
  /\ inboxLog = {}
  /\ prompts = {}
  /\ tasks = <<>>
  /\ http = Response(0, "")
  /\ failures = 0
  /\ network = [cap |-> 0, threads |-> 1, forged |-> FALSE, alarm |-> FALSE, failures |-> 0]
  /\ search = NoSearch
  /\ \/ \E action \in ButtonActions, threadTs \in Strings, channel \in Strings,
           data \in DataVariants :
          codec = [NoCodec EXCEPT !.pc = "payload", !.threadTs = threadTs,
                                  !.channel = channel,
                                  !.payload = ButtonPayloadObject(action, threadTs, channel, data)]
     \/ \E builder \in {"category", "duplicate", "options", "optionsDuplicate"},
           threadTs \in Strings, channel \in Strings :
          codec = [NoCodec EXCEPT !.pc = "builder", !.builder = builder,
                                  !.threadTs = threadTs, !.channel = channel]

\* encodeButtonPayload(payload)
EncodeButtonPayload ==
  /\ codec.pc = "payload"
  /\ LET encoded == encodeButtonPayload(codec.payload)
     IN  codec' = [codec EXCEPT !.encoded = encoded,
                                !.pc = IF encoded.threw THEN "threw" ELSE "encoded"]
  /\ UNCHANGED <<state, storage, pages, inboxLog, prompts, tasks, http, failures, network, search>>

\* decodeButtonPayload(encoded)
DecodeButtonPayload ==
  /\ codec.pc = "encoded"
  /\ codec' = [codec EXCEPT !.decoded = decodeButtonPayload(codec.encoded.value),
                            !.pc = "decoded"]
  /\ UNCHANGED <<state, storage, pages, inboxLog, prompts, tasks, http, failures, network, search>>

\* one of the three builders makes the buttons of a prompt; it throws when
\* encodeButtonPayload does
BuildBlocks ==
  /\ codec.pc = "builder"
  /\ LET elements ==
           CASE codec.builder = "category" -> categoryElements(codec.threadTs, codec.channel)
             [] codec.builder = "duplicate" -> duplicateElements(codec.threadTs, codec.channel)
             [] codec.builder = "options" ->
                  optionElements(codec.threadTs, codec.channel, FALSE)
             [] codec.builder = "optionsDuplicate" ->
                  optionElements(codec.threadTs, codec.channel, TRUE)
     IN  codec' = IF \E i \in DOMAIN elements : elements[i].threw
                  THEN [codec EXCEPT !.pc = "threw"]
                  ELSE [codec EXCEPT !.pc = "built",
                                     !.elements = [i \in DOMAIN elements |-> elements[i].value]]
  /\ UNCHANGED <<state, storage, pages, inboxLog, prompts, tasks, http, failures, network, search>>

\* handleSlackInteraction: decodeButtonPayload(action.value) of a button
DecodeElement ==
  /\ codec.pc = "built"
  /\ \E i \in DOMAIN codec.elements :
       codec' = [codec EXCEPT !.decoded = decodeButtonPayload(codec.elements[i]),
                              !.encoded = Returns(codec.elements[i]),
                              !.pc = "clicked"]
  /\ UNCHANGED <<state, storage, pages, inboxLog, prompts, tasks, http, failures, network, search>>

CodecNext ==
  \/ EncodeButtonPayload
  \/ DecodeButtonPayload
  \/ BuildBlocks
  \/ DecodeElement

CodecSpec == CodecInit /\ [][CodecNext]_vars

\* ---------------------------------------- the search functions on their own
\* The strings calculateSimilarity is applied to: a query of up to MaxQuery
\* characters and a name of up to MaxName characters out of two letters, a
\* capital and the blank, and the pair of the documentation.
MaxQuery == 3  \* length of the longest query
MaxName == 5   \* length of the longest name

Letters == {"a", "s", "S", " "}

StringsUpTo(n) == UNION {[1..m -> Letters] : m \in 0..n}

str_Sarah == <<"S", "a", "r", "a", "h">>
str_Sarah_Connor == <<"S", "a", "r", "a", "h", " ", "C", "o", "n", "n", "o", "r">>

\* The stores searchByName is applied to: up to MaxPages pages, people and
\* projects, each with a title and possibly a list of nicknames.
MaxPages == 2  \* pages of the store that is searched

str_sam == <<"s", "a", "m">>
str_al == <<"a", "l">>
str_bo == <<"b", "o">>

NicknameLists ==
  {<<"s", "a", "m">>, <<"a", "l", ",", " ", "s", "a", "m">>, <<"s", "a", ",", "S", "a", "m">>}

SearchedPages ==
  {Page(db, "Name" :> name) : db \in {"person", "project"}, name \in {str_sam, str_al, str_bo}}
  \cup {Page(db, ("Name" :> name) @@ ("Nicknames" :> list)) :
          db \in {"person", "project"}, name \in {str_sam, str_al, str_bo},
          list \in NicknameLists}

SearchedStores == UNION {[1..n -> SearchedPages] : n \in 0..MaxPages}

SearchInit ==
  /\ state = NoContexts
  /\ storage = NoContexts
  /\ pages = StoredPages
  /\ inboxLog = {}
  /\ prompts = {}
  /\ tasks = <<>>
  /\ http = Response(0, "")
  /\ failures = 0
  /\ network = [cap |-> 0, threads |-> 1, forged |-> FALSE, alarm |-> FALSE, failures |-> 0]
  /\ codec = NoCodec
  /\ \/ \E str1 \in StringsUpTo(MaxQuery) \cup {str_Sarah},
           str2 \in StringsUpTo(MaxName) \cup {str_Sarah, str_Sarah_Connor} :
          search = [NoSearch EXCEPT !.pc = "strings", !.str1 = str1, !.str2 = str2]
     \/ \E query \in {str_sam, str_al, <<"s", "a">>}, category \in {"person", "project", "idea"},
           store \in SearchedStores :
          search = [NoSearch EXCEPT !.pc = "query", !.str1 = query, !.category = category,
                                    !.store = store]

\* calculateSimilarity(str1, str2)
CalculateSimilarity ==
  /\ search.pc = "strings"
  /\ search' = [search EXCEPT !.pc = "scored",
                              !.score = calculateSimilarity(search.str1, search.str2)]
  /\ UNCHANGED <<state, storage, pages, inboxLog, prompts, tasks, http, failures, network,
                 codec>>

\* searchByName(query, category, env)
SearchByName ==
  /\ search.pc = "query"
  /\ search' = [search EXCEPT !.pc = "searched",
                              !.results = searchByName(search.store, search.str1,
                                                       search.category)]
  /\ UNCHANGED <<state, storage, pages, inboxLog, prompts, tasks, http, failures, network,
                 codec>>

SearchNext ==
  \/ CalculateSimilarity
  \/ SearchByName

SearchSpec == SearchInit /\ [][SearchNext]_vars

\* ------------------------------------- the two gates of a capture on their own
\* One capture is handled in front of a store of up to MaxGatePages pages
\* whose titles score, against the names the oracle extracts, exactly 0.5,
\* between 0.5 and 0.8, exactly 0.8, above 0.8, and 1; the oracle's confidence
\* is just below, at and just above the threshold.
MaxGatePages == 2  \* pages of the store in front of the gates

name_anna == <<"a", "n", "n", "a">>
name_annas == <<"a", "n", "n", "a", "s">>
name_sam_le == <<"s", "a", "m", " ", "l", "e">>
name_sam_lee_jr == <<"s", "a", "m", " ", "l", "e", "e", " ", "j", "r">>
name_lee_sam == <<"l", "e", "e", " ", "s", "a", "m">>

GateAnswers ==
  {Classification("project", conf, name, FieldsOf("project")) :
     conf \in {CONFIDENCE_THRESHOLD - 1, CONFIDENCE_THRESHOLD, CONFIDENCE_THRESHOLD + 1},
     name \in {name_sam_l, name_anna}}
  \cup {Classification("person", CONFIDENCE_THRESHOLD, name_sam_lee, FieldsOf("person")),
        Classification("project", 100, name_anna, FieldsOf("project"))}

GatePages ==
  {Page("project", createProject(name, NoProps)) :
     name \in {name_sam_l, name_sam_le, name_sam_lee_jr, name_annas}}
  \cup {Page("person", createPerson(str_bo, [nicknames |-> <<name_lee_sam>>]))}

GateStores == UNION {[1..n -> GatePages] : n \in 0..MaxGatePages}

GateInit ==
  /\ state = NoContexts
  /\ storage = NoContexts
  /\ pages \in GateStores
  /\ inboxLog = {}
  /\ prompts = {}
  /\ tasks = <<>>
  /\ http = Response(0, "")
  /\ failures = 0
  /\ network = [cap |-> MaxProbeTasks, threads |-> 1, forged |-> FALSE, alarm |-> FALSE,
                failures |-> MaxProbeFailures, answers |-> GateAnswers]
  /\ codec = NoCodec
  /\ search = NoSearch

\* the handling of a capture: handleSlackEvent and processNewMessage
GateNext ==
  \/ Fetch(Signed(Capture(1)))
  \/ DetectMessageIntent(1)
  \/ AddReactionCheck(1)
  \/ Classify(1)
  \/ CreateInboxLog(1)
  \/ PostCategoryPrompt(1)
  \/ StoreLowConfidence(1)
  \/ SearchForDuplicates(1)
  \/ PostDuplicatePrompt(1)
  \/ StoreDuplicate(1)
  \/ FileCapture(1)
  \/ AddReaction100(1)
  \/ PostConfirmation(1)
  \/ PostError(1)

GateSpec == GateInit /\ [][GateNext]_vars

\* --------------------------------------------------------------- properties
Range(seq) == {seq[i] : i \in DOMAIN seq}

\* the handler was started by a message outside any thread and has the answer
\* of classify
isCapture(t) ==
  t.event.ts # 0 /\ t.event.thread_ts = 0 /\ t.classification # NoClassification

\* handler k returns in this step and no call of it has failed
Completes(k) ==
  /\ tasks[k].pc \notin {"done", "crashed"}
  /\ tasks'[k].pc = "done"
  /\ ~tasks'[k].failed

\* the top match of the duplicate search scores above 0.8
topAbove80(t) == Len(t.duplicates) > 0 /\ greater(t.duplicates[1].score, P80)

\* C1: when processNewMessage completes a capture whose confidence is at least
\* CONFIDENCE_THRESHOLD and whose duplicate search has no match above 0.8, it
\* has created exactly one record, in the collection of the classification's
\* category, and threadContexts[message.ts] names that record as notionPageId
\* and has no potentialDuplicate.
C1_AutoFile ==
  [][\A k \in DOMAIN tasks :
       LET t == tasks[k]
           ts == t.event.ts
       IN  (/\ Completes(k) /\ isCapture(t)
            /\ t.classification.confidence >= CONFIDENCE_THRESHOLD
            /\ ~topAbove80(t))
           => /\ Len(t.created) = 1
              /\ pages'[t.created[1]].db = t.classification.category
              /\ extractName(pages'[t.created[1]]) = t.classification.name
              /\ ts \in DOMAIN state'
              /\ state'[ts].notionPageId = t.created[1]
              /\ state'[ts].potentialDuplicate = NoDuplicate]_vars

C1_Witness ==
  \E k \in DOMAIN tasks :
    LET ts == tasks[k].event.ts
    IN  /\ tasks[k].outcome = "filed"
        /\ ts \in DOMAIN state
        /\ state[ts].notionPageId # undefined
        /\ pages[state[ts].notionPageId].db = state[ts].classification.category
        /\ state[ts].potentialDuplicate = NoDuplicate

\* C2: when processNewMessage completes a capture whose confidence is below
\* CONFIDENCE_THRESHOLD, it has created no record, it has posted the category
\* prompt, whose buttons are the four categories, and threadContexts[message.ts]
\* holds the classification of the oracle unchanged and no notionPageId.
C2_LowConfidence ==
  [][\A k \in DOMAIN tasks :
       LET t == tasks[k]
           ts == t.event.ts
           built == buildCategorySelectionBlocks(t.classification.confidence, ts)
       IN  (/\ Completes(k) /\ isCapture(t)
            /\ t.classification.confidence < CONFIDENCE_THRESHOLD)
           => /\ t.created = <<>>
              /\ pages' = pages
              /\ built.text \in Range(t.posts)
              /\ {b.data : b \in built.buttons} = Categories
              /\ Cardinality(built.buttons) = 4
              /\ ts \in DOMAIN state'
              /\ state'[ts].classification = t.classification
              /\ state'[ts].notionPageId = undefined]_vars

C2_Witness ==
  \E k \in DOMAIN tasks :
    LET ts == tasks[k].event.ts
    IN  /\ tasks[k].outcome = "low"
        /\ ts \in DOMAIN state
        /\ state[ts].classification.confidence < CONFIDENCE_THRESHOLD
        /\ state[ts].notionPageId = undefined
        /\ Prompt("category", ts, FALSE) \in prompts
        /\ pages = StoredPages

\* C3: when processNewMessage completes a capture that passes the confidence
\* gate and whose top duplicate match scores above 0.8, it has created no
\* record, it has posted the update-or-new prompt, and threadContexts[message.ts]
\* holds the classification, no notionPageId, and as potentialDuplicate the id,
\* name, category and score of the top match.
C3_StrongDuplicate ==
  [][\A k \in DOMAIN tasks :
       LET t == tasks[k]
           ts == t.event.ts
           top == t.duplicates[1]
       IN  (/\ Completes(k) /\ isCapture(t)
            /\ t.classification.confidence >= CONFIDENCE_THRESHOLD
            /\ topAbove80(t))
           => /\ t.created = <<>>
              /\ pages' = pages
              /\ buildDuplicateResolutionBlocks(t.classification.category, top.name, ts).text
                   \in Range(t.posts)
              /\ ts \in DOMAIN state'
              /\ state'[ts].classification = t.classification
              /\ state'[ts].notionPageId = undefined
              /\ state'[ts].potentialDuplicate.pageId = top.pageId
              /\ state'[ts].potentialDuplicate.name = top.name
              /\ state'[ts].potentialDuplicate.category = top.category
              /\ state'[ts].potentialDuplicate.score = top.score
              /\ top.pageId \in DOMAIN pages
              /\ extractName(pages[top.pageId]) = top.name]_vars

C3_Witness ==
  \E k \in DOMAIN tasks :
    LET ts == tasks[k].event.ts
    IN  /\ tasks[k].outcome = "duplicate"
        /\ ts \in DOMAIN state
        /\ state[ts].potentialDuplicate # NoDuplicate
        /\ greater(state[ts].potentialDuplicate.score, P80)
        /\ state[ts].notionPageId = undefined
        /\ pages = StoredPages

\* the handler was started by a reply in a thread whose context had a duplicate
\* pending, and the text of the reply contains the keyword in any case
repliesWith(t, keyword) ==
  /\ t.event.thread_ts # 0
  /\ t.context.potentialDuplicate # NoDuplicate
  /\ includes(toLowerCase(t.event.text), keyword)

\* C4: a reply that contains "update" or "new", in any case, in a thread whose
\* context has a duplicate pending is handled without a call of
\* detectThreadIntent.  For "update" the existing record is patched with the
\* fields of the classification, no record is created, potentialDuplicate is
\* cleared and notionPageId is the id of the existing record; for "new" exactly
\* one record is created, potentialDuplicate is cleared and notionPageId is the
\* id of the new record.
C4_FastPath ==
  /\ [](\A k \in DOMAIN tasks :
          LET t == tasks[k]
          IN  (repliesWith(t, str_update) \/ repliesWith(t, str_new))
              => /\ t.pc # "detectThreadIntent"
                 /\ "detectThreadIntent" \notin Range(t.calls))
  /\ [][\A k \in DOMAIN tasks :
          LET t == tasks[k]
              ts == t.event.thread_ts
              duplicate == t.context.potentialDuplicate
              properties == buildUpdateProperties(t.context.classification)
          IN  /\ (repliesWith(t, str_update) /\ t.pc = "duplicateUpdate"
                    /\ tasks'[k].pc = "duplicateUpdatePost")
                 => /\ Len(pages') = Len(pages)
                    /\ extractName(pages'[duplicate.pageId]) = t.context.classification.name
                    /\ \A p \in DOMAIN properties :
                         pages'[duplicate.pageId].props[p] = properties[p]
              /\ (repliesWith(t, str_update) /\ Completes(k))
                 => /\ t.created = <<>>
                    /\ "updatePage" \in Range(t.calls)
                    /\ state'[ts].potentialDuplicate = NoDuplicate
                    /\ state'[ts].notionPageId = duplicate.pageId
              /\ (repliesWith(t, str_new) /\ ~repliesWith(t, str_update) /\ Completes(k))
                 => /\ Len(t.created) = 1
                    /\ "updatePage" \notin Range(t.calls)
                    /\ pages'[t.created[1]].db = t.context.classification.category
                    /\ state'[ts].potentialDuplicate = NoDuplicate
                    /\ state'[ts].notionPageId = t.created[1]]_vars

C4_Witness ==
  \E k \in DOMAIN tasks :
    LET ts == tasks[k].event.thread_ts
    IN  /\ tasks[k].outcome = "updated"
        /\ tasks[k].event.text = text_update
        /\ ts \in DOMAIN state
        /\ state[ts].potentialDuplicate = NoDuplicate
        /\ state[ts].notionPageId \in DOMAIN StoredPages
        /\ Len(pages) = Len(StoredPages)
        /\ pages # StoredPages

\* what the claim lets fetch not accept: a POST with a header missing, with a
\* timestamp more than five minutes old, or with another signature than the
\* HMAC of its timestamp and body under the signing secret
mustReject(request) ==
  /\ request.method = "POST"
  /\ \/ ~request.hasTimestamp
     \/ ~request.hasSignature
     \/ Now - request.timestamp > MAX_SKEW
     \/ request.signature # hmac(SIGNING_SECRET, request.timestamp, request.body)

threadOf(t) == IF t.event.thread_ts # 0 THEN t.event.thread_ts ELSE t.payload.threadTs

\* C6: the handlers of two events of one thread do not interleave their reads
\* and writes of its ThreadContext: when a handler writes the context of its
\* thread, the copy it read when it started is still the stored one, so it
\* overwrites no update that another handler made in between.
C6_NoStaleOverwrite ==
  [][\A k \in DOMAIN tasks :
       LET t == tasks[k]
           ts == threadOf(t)
       IN  (/\ t.context # NoContext
            /\ tasks'[k] # t
            /\ ts \in DOMAIN state
            /\ state'[ts] # state[ts])
           => t.context = state[ts]]_vars

\* C7: when a step of processNewMessage has failed and the handler returns from
\* its catch block, the error message was posted to the thread (the post of the
\* catch block has not failed), no record or audit row written before is taken
\* back, and threadContexts has no entry for the message's ts, neither in
\* memory nor in durable storage.
C7_FailureLeavesNoContext ==
  [][\A k \in DOMAIN tasks :
       LET t == tasks[k]
       IN  (t.pc = "postError" /\ tasks'[k].pc = "done")
           => /\ failures' = failures
              /\ pages' = pages
              /\ inboxLog' = inboxLog
              /\ t.event.ts \notin DOMAIN state'
              /\ t.event.ts \notin DOMAIN storage']_vars

\* C8: no failure of an outbound call, and no other exception, leaves a
\* top-level handler (handleSlackEvent, handleSlackInteraction, alarm).
C8_NoEscape == \A k \in DOMAIN tasks : tasks[k].pc # "crashed"

\* the oracle has answered correct_category to the reply handler t serves
correcting(t) == t.event.thread_ts # 0 /\ t.intent.intent = "correct_category"
newCategoryOf(t) == t.intent.details.newCategory
sameCategory(t) ==
  correcting(t) /\ newCategoryOf(t) = t.context.classification.category
otherCategory(t) ==
  correcting(t) /\ newCategoryOf(t) # t.context.classification.category

\* C9: when the intent is correct_category and newCategory is the category the
\* context already has, handleThreadReply goes on to post "Already categorized
\* as <category>", and no step of it creates a record or writes threadContexts.
C9_SameCategory ==
  [][\A k \in DOMAIN tasks :
       LET t == tasks[k]
           category == t.context.classification.category
       IN  /\ (t.pc = "detectThreadIntent" /\ sameCategory(tasks'[k]))
              => /\ tasks'[k].pc = "postBotResponse"
                 /\ tasks'[k].botResponse = Text("Already categorized as", category, <<>>, 0)
                 /\ UNCHANGED <<state, storage, pages>>
           /\ (sameCategory(t) /\ tasks'[k] # t)
              => /\ UNCHANGED <<state, storage, pages>>
                 /\ t.created = <<>>
                 /\ ~t.wrote /\ ~tasks'[k].wrote
                 /\ Completes(k) => t.botResponse = Text("Already categorized as", category, <<>>, 0)]_vars

C9_Witness ==
  \E k \in DOMAIN tasks :
    LET ts == tasks[k].event.thread_ts
    IN  /\ tasks[k].outcome = "correct_category"
        /\ ~tasks[k].wrote
        /\ ts \in DOMAIN state
        /\ state[ts].notionPageId # undefined
        /\ Len(pages) = Len(StoredPages) + 1

\* C10: when the intent is correct_category and newCategory differs from the
\* category of the context, handleThreadReply creates one record, in the
\* collection of newCategory, and stores the context with category newCategory,
\* the name and fields as they were, and the id of the new record as
\* notionPageId; when it completes it has created exactly that one record.
C10_OtherCategory ==
  [][\A k \in DOMAIN tasks :
       LET t == tasks[k]
           ts == t.event.thread_ts
           old == t.context.classification
           id == Len(pages) + 1
       IN  /\ (otherCategory(t) /\ t.pc = "correctFile" /\ tasks'[k].pc = "postBotResponse")
              => /\ Len(pages') = id
                 /\ pages'[id].db = newCategoryOf(t)
                 /\ extractName(pages'[id]) = old.name
                 /\ SubSeq(pages', 1, Len(pages)) = pages
                 /\ tasks'[k].created = <<id>>
                 /\ state'[ts].classification.category = newCategoryOf(t)
                 /\ state'[ts].classification.name = old.name
                 /\ state'[ts].classification.fields = old.fields
                 /\ state'[ts].notionPageId = id
           /\ (otherCategory(t) /\ tasks'[k] # t /\ t.pc # "correctFile")
              => UNCHANGED <<state, storage, pages>>
           /\ (otherCategory(t) /\ Completes(k)) => Len(t.created) = 1]_vars

C10_Witness ==
  \E k \in DOMAIN tasks :
    LET ts == tasks[k].event.thread_ts
    IN  /\ tasks[k].outcome = "correct_category"
        /\ tasks[k].wrote
        /\ ts \in DOMAIN state
        /\ state[ts].notionPageId = Len(pages)
        /\ pages[Len(pages)].db = state[ts].classification.category
        /\ state[ts].classification.confidence = USER_CONFIRMED

\* a reply handler whose context is that of a low-confidence capture still
\* awaiting its category
awaitsCategory(t) ==
  /\ t.event.thread_ts # 0
  /\ t.context # NoContext
  /\ t.context.notionPageId = undefined
  /\ t.context.potentialDuplicate = NoDuplicate
  /\ t.context.classification.confidence < CONFIDENCE_THRESHOLD

\* C11: when a typed reply in the thread of a low-confidence capture (context
\* present, notionPageId absent) names a category (the oracle answers
\* correct_category with one of the four categories, the guessed one included)
\* and handleThreadReply comes to post its response, it has created one record
\* in the collection of that category and has stored the context with its id.
C11_TypedReplyFiles ==
  \A k \in DOMAIN tasks :
    LET t == tasks[k]
    IN  (/\ awaitsCategory(t)
         /\ correcting(t)
         /\ newCategoryOf(t) \in Categories
         /\ t.pc = "postBotResponse")
        => /\ Len(t.created) = 1
           /\ pages[t.created[1]].db = newCategoryOf(t)
           /\ t.wrote

\* a handler of a thread reply that found the context of its thread
repliesInContext(t) == t.event.thread_ts # 0 /\ t.context # NoContext

\* C12: a reply handled by a branch other than query (the fast path, correct_
\* category, update_field, add_context, create_related, unclear, their soft
\* failures included) stores the context with the messages it read, then the
\* user's reply, then the response of the system, in durable storage as in
\* memory; a handler that returns without a failed call has stored it.
C12_AppendsBoth ==
  [][\A k \in DOMAIN tasks :
       LET t == tasks[k]
           u == tasks'[k]
           ts == t.event.thread_ts
           response == IF t.pc = "storeOptions"
                       THEN buildThreadOptionsBlocks(ts, t.context.potentialDuplicate # NoDuplicate).text
                       ELSE IF u.pc \in {"done", "crashed"} THEN t.botResponse
                       ELSE u.botResponse
       IN  (repliesInContext(t) /\ t.intent.intent # "query" /\ u # t)
           => /\ state' # state
                 => /\ state'[ts].messages =
                         t.context.messages
                         \o <<ThreadMessage("user", Raw(t.event.text)),
                              ThreadMessage("assistant", response)>>
                    /\ ~u.failed => storage' = state'
              /\ Completes(k) => u.wrote]_vars

\* page `id` of the store is patched with `properties` and nothing else of the
\* store changes
patched(id, properties) ==
  /\ Len(pages') = Len(pages)
  /\ \A i \in DOMAIN pages : i # id => pages'[i] = pages[i]
  /\ pages'[id].db = pages[id].db
  /\ DOMAIN pages'[id].props = DOMAIN pages[id].props \cup DOMAIN properties
  /\ \A p \in DOMAIN pages'[id].props :
       pages'[id].props[p] = IF p \in DOMAIN properties THEN properties[p]
                             ELSE pages[id].props[p]

\* how often handler t has called `name`
callsOf(t, name) == Cardinality({i \in DOMAIN t.calls : t.calls[i] = name})

\* the oracle has answered update_field, with a field and a value, to the
\* reply handler t serves
updating(t) ==
  /\ repliesInContext(t)
  /\ t.intent.intent = "update_field"
  /\ given(t.intent.details, "field") /\ given(t.intent.details, "value")

\* handleThreadReply on update_field {field, value}: with a notionPageId the
\* one store call is an update of that record with the one property named by
\* storeField(category, field); without it there is no store call and the
\* soft-failure reply is posted
fieldUpdate(k, storeField(_, _)) ==
  LET t == tasks[k]
      u == tasks'[k]
      details == t.intent.details
      category == t.context.classification.category
  IN  /\ (t.pc = "detectThreadIntent" /\ updating(u))
         => /\ UNCHANGED <<state, storage, pages>>
            /\ IF t.context.notionPageId # undefined
               THEN u.pc = "fieldUpdatePage"
               ELSE /\ u.pc = "postBotResponse"
                    /\ u.botResponse = Text("I couldn't update the field", "", <<>>, 0)
      /\ (updating(t) /\ t.pc = "fieldUpdatePage" /\ u.pc = "postBotResponse")
         => /\ patched(t.context.notionPageId,
                       storeField(category, details.field) :> details.value)
            /\ callsOf(u, "updatePage") = 1
            /\ callsOf(u, "createPage") = 0
      /\ (updating(t) /\ u # t /\ t.pc # "fieldUpdatePage")
         => /\ pages' = pages
            /\ t.context.notionPageId = undefined
               => callsOf(t, "updatePage") = 0 /\ callsOf(t, "createPage") = 0

\* the store field of the per-category table; the logical field has an entry
tableField(category, field) ==
  IF field \in DOMAIN fieldMapping(category) THEN fieldMapping(category)[field]
  ELSE "no entry"

\* the store field of the table, and the logical name itself for a field the
\* table of the category has no entry for
tableOrLogicalField(category, field) ==
  IF category \in Categories /\ field \in DOMAIN fieldMapping(category)
  THEN fieldMapping(category)[field]
  ELSE field

\* C13 as stated: on update_field {field, value} a filed thread gets exactly
\* one update of its record, carrying exactly one property, the store field the
\* per-category table maps the logical field to; an unfiled one gets no store
\* call and the soft-failure reply.
C13_TableFieldOnly ==
  [][\A k \in DOMAIN tasks : fieldUpdate(k, tableField)]_vars

\* C13, amended: ... carrying exactly one property, the store field the table
\* maps the logical field to, or, when the table of the current category has
\* no entry for the field, a property with the logical field's own name.
C13_OneProperty ==
  [][\A k \in DOMAIN tasks : fieldUpdate(k, tableOrLogicalField)]_vars

\* a person's record has been patched with "status", which the table of person
\* does not list, under that very name
C13_Witness ==
  \E k \in DOMAIN tasks :
    /\ updating(tasks[k])
    /\ tasks[k].pc = "postBotResponse"
    /\ tasks[k].context.notionPageId # undefined
    /\ tasks[k].context.classification.category = "person"
    /\ "status" \in DOMAIN pages[tasks[k].context.notionPageId].props

\* the oracle has answered add_context, with a text, to the reply handler t
\* serves
addingContext(t) ==
  /\ repliesInContext(t)
  /\ t.intent.intent = "add_context"
  /\ given(t.intent.details, "context")

\* the note field of a category
noteField(category) == IF category = "person" THEN "Context" ELSE "Notes"

\* C14: on add_context {context} in a filed thread the one store call is an
\* update of the thread's record after which its note field (Context for a
\* person, Notes otherwise) holds what it held before followed by the new text;
\* in a thread not yet filed there is no store call and the soft-failure reply
\* is posted.
C14_AppendsToNote ==
  [][\A k \in DOMAIN tasks :
       LET t == tasks[k]
           u == tasks'[k]
           id == t.context.notionPageId
           field == noteField(t.context.classification.category)
           text == t.intent.details.context
           before == IF field \in DOMAIN pages[id].props THEN pages[id].props[field] ELSE ""
       IN  /\ (t.pc = "detectThreadIntent" /\ addingContext(u))
              => /\ UNCHANGED <<state, storage, pages>>
                 /\ IF t.context.notionPageId # undefined
                    THEN u.pc = "contextUpdatePage"
                    ELSE /\ u.pc = "postBotResponse"
                         /\ u.botResponse = Text("I couldn't add context", "", <<>>, 0)
           /\ (addingContext(t) /\ t.pc = "contextUpdatePage" /\ u.pc = "postBotResponse")
              => /\ patched(id, field :> (before \o text))
                 /\ callsOf(u, "updatePage") = 1
                 /\ callsOf(u, "createPage") = 0
           /\ (addingContext(t) /\ u # t /\ t.pc # "contextUpdatePage")
              => /\ pages' = pages
                 /\ t.context.notionPageId = undefined
                    => callsOf(t, "updatePage") = 0 /\ callsOf(t, "createPage") = 0]_vars

\* the oracle has answered create_related, with a category and a name, to the
\* reply handler t serves
creatingRelated(t) ==
  /\ repliesInContext(t)
  /\ t.intent.intent = "create_related"
  /\ given(t.intent.details, "category") /\ given(t.intent.details, "name")

querying(t) ==
  t.pc \in {"addReactionMag", "querySearch"} \/ callsOf(t, "searchAll") > 0

\* C16: no step of a handler that is handling a query creates or updates a
\* record or writes an audit row; for a message outside any thread it leaves
\* threadContexts as it is, with no entry for the message; for a reply the one
\* write it makes stores the context it read with the user's reply appended to
\* messages and nothing else changed.
C16_QueryFrame ==
  [][\A k \in DOMAIN tasks :
       LET t == tasks[k]
           ts == t.event.thread_ts
       IN  (querying(t) /\ tasks'[k] # t)
           => /\ pages' = pages
              /\ inboxLog' = inboxLog
              /\ IF ts = 0
                 THEN /\ UNCHANGED <<state, storage>>
                      /\ t.event.ts \notin DOMAIN state
                 ELSE state' # state
                      => state' = [state EXCEPT ![ts] =
                           [t.context EXCEPT !.messages =
                              Append(@, ThreadMessage("user", Raw(t.event.text)))]]]_vars

\* C17: a reply or a click for a thread that has no ThreadContext makes one
\* call, the post of the 'no context' message (for a click, in place of the
\* prompt): the handler has called nothing before, the step changes neither
\* threadContexts nor the store nor the audit collection, and with it the
\* handler returns normally.
C17_NoContextSoft ==
  [][\A k \in DOMAIN tasks :
       LET t == tasks[k]
           u == tasks'[k]
       IN  (t.pc \in {"postNoContext", "respondNoContext"} /\ u # t)
           => /\ t.calls = <<>>
              /\ UNCHANGED <<state, storage, pages, inboxLog>>
              /\ u.pc = "done"
              /\ u.outcome = "nocontext"
              /\ ~u.failed]_vars

\* handler t serves a button click
isClick(t) == t.payload # NoPayload

\* the calls to the classification and intent oracle
OracleCalls ==
  {"classify", "detectMessageIntent", "detectThreadIntent", "generateQueryResponse"}

\* the calls with which a button handler answers: respondToInteraction with
\* replace_original
RespondSteps ==
  {"respondNoContext", "categoryRespond", "respondGuidance",
   "resolveUpdateRespond", "resolveNewRespond"}

\* C18: the handler of a button click never calls the classification or intent
\* oracle; what it files and stores follows from the decoded payload and the
\* ThreadContext it read (category_select: the classification with the
\* category of the button; duplicate_resolve: the pending duplicate adopted, or
\* the classification filed as it is; thread_option: nothing); and its last
\* call replaces the prompt clicked with the outcome text.
C18_ButtonsBypassOracle ==
  /\ [](\A k \in DOMAIN tasks :
          isClick(tasks[k])
          => /\ \A i \in DOMAIN tasks[k].calls : tasks[k].calls[i] \notin OracleCalls
             /\ tasks[k].pc \notin {"classify", "detectMessageIntent", "detectThreadIntent",
                                    "querySearch", "queryGenerate"})
  /\ [][\A k \in DOMAIN tasks :
          LET t == tasks[k]
              u == tasks'[k]
              ts == t.payload.threadTs
              id == Len(pages) + 1
              chosen == [t.context.classification EXCEPT !.category = t.payload.data,
                                                         !.confidence = USER_CONFIRMED]
          IN  (isClick(t) /\ u # t)
              => /\ (t.pc = "categoryFile" /\ u.pc = "categoryRespond")
                    => /\ pages' = Append(pages, fileToNotionPage(chosen))
                       /\ state' = withContext(state, ts,
                            [t.context EXCEPT !.classification = chosen, !.notionPageId = id])
                 /\ (t.pc = "resolveUpdateRespond" /\ u.pc = "done")
                    => state' = withContext(state, ts,
                         [t.context EXCEPT !.notionPageId = t.context.potentialDuplicate.pageId,
                                           !.potentialDuplicate = NoDuplicate])
                 /\ (t.pc = "resolveFile" /\ u.pc = "resolveNewRespond")
                    => pages' = Append(pages, fileToNotionPage(t.context.classification))
                 /\ (t.pc = "resolveNewRespond" /\ u.pc = "done")
                    => state' = withContext(state, ts,
                         [t.context EXCEPT !.notionPageId = t.pageId,
                                           !.potentialDuplicate = NoDuplicate])
                 /\ t.pc = "respondGuidance" => UNCHANGED <<state, storage, pages>>
                 /\ Completes(k)
                    => /\ t.pc \in RespondSteps
                       /\ t.prompt \notin prompts']_vars

\* a category button has been clicked, the capture filed under its category
\* and the prompt replaced
C18_Witness ==
  \E k \in DOMAIN tasks :
    LET t == tasks[k]
    IN  /\ isClick(t)
        /\ t.outcome = "category_select"
        /\ t.prompt \notin prompts
        /\ t.payload.threadTs \in DOMAIN state
        /\ state[t.payload.threadTs].notionPageId # undefined
        /\ state[t.payload.threadTs].classification.category = t.payload.data

\* the value of a member of a decoded object; an object of no members
\* stands for a member that is missing
memberOf(object, key) ==
  IF \E i \in DOMAIN object.members : object.members[i][1] = lit(key)
  THEN object.members[CHOOSE i \in DOMAIN object.members : object.members[i][1] = lit(key)][2]
  ELSE Obj(<<>>)

\* the buttons of a prompt decode to payloads that carry the threadTs and
\* the channel the prompt was built for
carriesThread ==
  codec.pc = "clicked"
  => /\ ~codec.decoded.threw
     /\ memberOf(codec.decoded.value, "threadTs") = Str(codec.threadTs)
     /\ memberOf(codec.decoded.value, "channel") = Str(codec.channel)

latin1(chars) == \A i \in DOMAIN chars : chars[i] <= 255

rowsOf(k) == {entry.row : entry \in {e \in inboxLog : e.task = k}}

\* where a capture handler is after createInboxLog has returned: on the
\* low-confidence path, on the duplicate path or on the filing path
PastGate ==
  {"postCategoryPrompt", "storeLowConfidence", "searchForDuplicates", "postDuplicatePrompt",
   "storeDuplicate", "fileToNotion", "addReaction100", "postConfirmation"}

\* C20: a capture whose classification succeeded writes its audit row in one
\* step, before the confidence gate: the row carries the original text, the
\* extracted name, the confidence and, as destination, the category when the
\* confidence is at least 0.6 and needs_review below it.  On each of the
\* three paths behind the gate, and when the capture has ended there, that
\* row is the handler's only one; no other step writes a row.
C20_AuditRow ==
  /\ [](\A k \in DOMAIN tasks :
          LET t == tasks[k]
              c == t.classification
          IN  /\ t.pc \in {"detectMessageIntent", "addReactionCheck", "classify", "createInboxLog"}
                 => rowsOf(k) = {}
              /\ t.pc \in PastGate
                 => /\ rowsOf(k) =
                         {[record_name |-> c.name, captured_text |-> t.event.text,
                           confidence |-> c.confidence,
                           destination |-> IF c.confidence >= CONFIDENCE_THRESHOLD
                                           THEN c.category ELSE "needs_review"]}
                    /\ c.confidence < CONFIDENCE_THRESHOLD
                       <=> t.pc \in {"postCategoryPrompt", "storeLowConfidence"}
              /\ t.outcome \in {"low", "duplicate", "filed"}
                 => \E row \in rowsOf(k) :
                      /\ rowsOf(k) = {row}
                      /\ row.captured_text = t.event.text
                      /\ row.destination = "needs_review" <=> t.outcome = "low")
  /\ [][inboxLog' # inboxLog
        => \E k \in DOMAIN tasks :
             /\ tasks[k].pc = "createInboxLog"
             /\ tasks'[k].pc \in {"postCategoryPrompt", "searchForDuplicates"}
             /\ \E entry \in inboxLog' \ inboxLog :
                  inboxLog' = inboxLog \cup {entry} /\ entry.task = k]_vars

\* one capture has ended on the low-confidence path and one on the filing
\* path, each with its audit row
C20_Witness ==
  \E k, j \in DOMAIN tasks :
    /\ tasks[k].outcome = "low"
    /\ \E row \in rowsOf(k) : row.destination = "needs_review"
    /\ tasks[j].outcome = "filed"
    /\ \E row \in rowsOf(j) : row.destination \in Categories

\* C21: the audit write is best-effort: a capture whose createInboxLog call
\* fails still goes on to the confidence gate (and from there to the
\* category prompt or to the duplicate search and the filing).
C21_AuditBestEffort ==
  [][\A k \in DOMAIN tasks :
       (tasks[k].pc = "createInboxLog" /\ tasks'[k] # tasks[k])
       => tasks'[k].pc = (IF tasks[k].classification.confidence < CONFIDENCE_THRESHOLD
                          THEN "postCategoryPrompt" ELSE "searchForDuplicates")]_vars

\* a capture handler is about to store the ThreadContext of its thread
storing(t) == t.pc \in {"storeLowConfidence", "storeDuplicate", "postConfirmation"}

\* the originalMessage of the contexts processNewMessage stores is the raw
\* text of the captured message
storesRawText ==
  [][\A k \in DOMAIN tasks :
       LET t == tasks[k]
           ts == t.event.ts
       IN  (storing(t) /\ tasks'[k] # t /\ ts \in DOMAIN state' /\ tasks'[k].wrote)
           => state'[ts].originalMessage = Raw(t.event.text)]_vars

\* no step other than a capture's own store changes the originalMessage of
\* a context
keepsOriginalMessage ==
  [][\A ts \in DOMAIN state \cap DOMAIN state' :
       state'[ts].originalMessage # state[ts].originalMessage
       => \E k \in DOMAIN tasks :
            storing(tasks[k]) /\ tasks'[k] # tasks[k] /\ tasks[k].event.ts = ts]_vars

\* C22: on each of the three paths of processNewMessage the ThreadContext
\* is stored with originalMessage equal to the raw captured text, and no
\* later transition changes it.
C22_OriginalMessage == storesRawText /\ keepsOriginalMessage

\* C23: a thread's notionPageId, once set, is set in every later state: a
\* step may replace it by another record id but never clears it.
C23_PageIdKept ==
  [][\A ts \in DOMAIN state :
       state[ts].notionPageId # undefined
       => ts \in DOMAIN state' /\ state'[ts].notionPageId # undefined]_vars

\* the last step of a duplicate resolution: the text fast path or a
\* duplicate_resolve button, update-existing or create-new
resolving(t) ==
  t.pc \in {"duplicateUpdatePost", "duplicateNewPost", "resolveUpdateRespond",
            "resolveNewRespond"}

pending(contexts, ts) ==
  ts \in DOMAIN contexts /\ contexts[ts].potentialDuplicate # NoDuplicate

capturing(t) ==
  /\ t.event # NoEvent /\ t.event.thread_ts = 0 /\ ~isClick(t)
  /\ t.pc \notin {"done", "crashed"}

\* the handler has posted a category or duplicate prompt in its thread
asked(t) ==
  /\ \E i \in DOMAIN t.calls : t.calls[i] = "postMessageWithBlocks"
  /\ t.posts # <<>>

\* C25: when the handler of a message outside any thread ends, its thread
\* has a ThreadContext if and only if the handler posted a prompt there or
\* created a record for it; and a thread gets a ThreadContext only from the
\* store of such a handler.
C25_ContextIffAskedOrFiled ==
  [][/\ \A k \in DOMAIN tasks :
          LET t == tasks[k]
          IN  (capturing(t) /\ tasks'[k].pc \in {"done", "crashed"})
              => (t.event.ts \in DOMAIN state' <=> (asked(t) \/ t.created # <<>>))
     /\ DOMAIN state' # DOMAIN state
        => \E k \in DOMAIN tasks :
             /\ storing(tasks[k]) /\ tasks'[k] # tasks[k]
             /\ DOMAIN state' = DOMAIN state \cup {tasks[k].event.ts}]_vars

valid(classification) ==
  /\ classification.category \in Categories
  /\ classification.confidence \in 0..100
  /\ classification.name # <<>>

\* C26: every ClassificationResult that classify has returned to a handler
\* (which the handler then logs, gates on and passes to fileToNotion), and
\* every one stored in a ThreadContext, has a category of the enum, a
\* confidence and a name: an answer without them makes classify fail.
C26_ValidClassification ==
  /\ \A k \in DOMAIN tasks :
       tasks[k].classification # NoClassification => valid(tasks[k].classification)
  /\ \A ts \in DOMAIN state : valid(state[ts].classification)

menuOf(t) ==
  Prompt("options", t.event.thread_ts, t.context.potentialDuplicate # NoDuplicate)

same(s, t) == s.num * t.den = t.num * s.den

\* the words of the query that contain a word of the name or are contained
\* in one, counted with their repetitions
matchingWords(query, name) ==
  LET words1 == splitWords(toLowerCase(query))
      words2 == splitWords(toLowerCase(name))
  IN  Cardinality({i \in DOMAIN words1 :
                     \E j \in DOMAIN words2 :
                       includes(words2[j], words1[i]) \/ includes(words1[i], words2[j])})

wordCount(s) == Len(splitWords(toLowerCase(s)))

\* the score of the statement, with the overlap divided by `words`
scoring(query, name, words) ==
  LET s1 == toLowerCase(query)
      s2 == toLowerCase(name)
  IN  IF s1 = s2 THEN Score(1, 1)
      ELSE IF includes(s1, s2) \/ includes(s2, s1)
        THEN Score(Min(Len(s1), Len(s2)), Max(Len(s1), Len(s2)))
      ELSE Score(8 * matchingWords(query, name), 10 * words)

inUnitInterval(s) == s.den > 0 /\ s.num >= 0 /\ s.num <= s.den

\* C29 as stated: calculateSimilarity(query, name) is 1 on a match without
\* regard to case, shorter length / longer length when one string contains
\* the other, otherwise 0.8 times the fraction of the words of the query
\* that match a word of the name (0 when none does), and lies in [0, 1].
C29_FractionOfQueryWords ==
  search.pc = "scored"
  => /\ same(search.score, scoring(search.str1, search.str2, wordCount(search.str1)))
     /\ inUnitInterval(search.score)

\* C29 amended: as above, but the number of matching words of the query is
\* divided by the larger of the two word counts, that of the query and that
\* of the name; score("Sarah", "Sarah Connor") = 5/12.
C29_OverLargerWordCount ==
  search.pc = "scored"
  => /\ same(search.score,
             scoring(search.str1, search.str2,
                     Max(wordCount(search.str1), wordCount(search.str2))))
     /\ inUnitInterval(search.score)
     /\ (search.str1 = str_Sarah /\ search.str2 = str_Sarah_Connor)
        => same(search.score, Score(5, 12))
     /\ (search.str1 = str_Sarah /\ search.str2 = str_Sarah)
        => same(search.score, Score(1, 1))

\* a query of two words has been scored against a name of three words that
\* does not contain it: both words match, and the score is 0.8 * 2/3
C29_Witness ==
  /\ search.pc = "scored"
  /\ search.str1 = <<"a", " ", "a">>
  /\ search.str2 = <<"s", " ", "a", " ", "S">>
  /\ same(search.score, Score(16, 30))

\* the results of the search that were found by a nickname
byNickname == {i \in DOMAIN search.results : search.results[i].matchType = "nickname"}

\* a page of the searched category whose title the store's filter returns
\* for the query and that scores above 0
titleMatch(id) ==
  LET page == search.store[id]
  IN  /\ page.db = search.category
      /\ includes(toLowerCase(extractName(page)), toLowerCase(search.str1))
      /\ greater(calculateSimilarity(search.str1, extractName(page)), ZERO)

\* C30: searchByName returns results found by a nickname only for the person
\* category and only when no title match scored above 0; then every result
\* is one, each person record has at most one, and its score is 0.9 times
\* the similarity of the query and one of the record's nicknames.  With a
\* title match, and for the other categories, the results are the title
\* matches alone.
C30_NicknamesForPeople ==
  search.pc = "searched"
  => LET results == search.results
         consulted == /\ search.category = "person"
                      /\ ~\E id \in DOMAIN search.store : titleMatch(id)
     IN  /\ byNickname # {} => consulted
         /\ ~consulted
            => /\ {results[i].pageId : i \in DOMAIN results}
                  = {id \in DOMAIN search.store : titleMatch(id)}
               /\ Len(results) = Cardinality({id \in DOMAIN search.store : titleMatch(id)})
         /\ consulted
            => /\ byNickname = DOMAIN results
               /\ \A i, j \in DOMAIN results :
                    results[i].pageId = results[j].pageId => i = j
               /\ \A i \in DOMAIN results :
                    LET page == search.store[results[i].pageId]
                        nicknames == extractNicknames(page)
                    IN  /\ page.db = "person"
                        /\ \E n \in DOMAIN nicknames :
                             same(results[i].score,
                                  times(calculateSimilarity(search.str1, nicknames[n]), 9, 10))

\* a person whose title does not match and who has two nicknames that match
\* the query has been found once, by the first of them
C30_Witness ==
  /\ search.pc = "searched"
  /\ search.category = "person"
  /\ search.str1 = str_sam
  /\ Len(search.store) = 2
  /\ Len(search.results) = 1
  /\ search.results[1].matchType = "nickname"
  /\ search.store[search.results[1].pageId].props["Nicknames"]
       = <<"s", "a", ",", "S", "a", "m">>
  /\ same(search.results[1].score, Score(6, 10))

\* ------------------------------------------------- the acknowledgement
\* the request carries the platform's signature over its body, and its body is
\* an event or a button click
acknowledged(request) ==
  /\ request.method = "POST"
  /\ request.hasTimestamp /\ request.hasSignature
  /\ verifySignature(request.body, request.timestamp, request.signature, SIGNING_SECRET)
  /\ (request.interaction \/ request.body.type = "event_callback")

\* the handler was started by fetch, not by the alarm
byRequest(t) == t.event # NoEvent \/ t.payload # NoPayload

\* the handler has made no outbound call and written nothing
notStarted(t) ==
  t.calls = <<>> /\ t.posts = <<>> /\ t.created = <<>> /\ ~t.wrote

\* C31: fetch answers a correctly signed event or button click with 200 "OK"
\* whatever the state; at that moment the handler it started has made no
\* outbound call, and no later step of a handler changes the answer
C31_AckBeforeWork ==
  /\ [](\A request \in Requests :
          acknowledged(request) =>
            fetchOutcome(request, state).response = Response(200, "OK"))
  /\ [][/\ (Len(tasks') > Len(tasks) /\ byRequest(tasks'[Len(tasks')])) =>
             /\ http' = Response(200, "OK")
             /\ notStarted(tasks'[Len(tasks')])
             /\ pages' = pages /\ state' = state /\ prompts' = prompts
        /\ (Len(tasks') = Len(tasks) /\ tasks' # tasks) => http' = http]_vars

\* a handler has crashed, another has filed a record, and the last answer is
\* the acknowledgement
C31_Witness ==
  /\ http = Response(200, "OK")
  /\ \E k \in DOMAIN tasks : tasks[k].outcome = "crashed"
  /\ \E k \in DOMAIN tasks : tasks[k].wrote

\* what the tests of the agent expect for a body of the given type
expected(type) ==
  CASE type = "url_verification" -> Response(200, "challenge")
    [] type = "invalid_json" -> Response(400, "Invalid JSON")
    [] OTHER -> Response(400, "Unknown event type")

\* C32: a POST without signature headers is answered according to its body:
\* the challenge with 200 for a url_verification, 400 "Invalid JSON" for a
\* body that does not parse, 400 "Unknown event type" for an unknown type
C32_AnswersAsTested ==
  [][\A body \in OtherBodies :
       (body.type # "event_callback" /\ Unsigned(body) \in Requests
          /\ Fetch(Unsigned(body))) => http' = expected(body.type)]_vars

\* the same answers are given when the platform has signed the request
answersWhenSigned ==
  \A body \in OtherBodies :
     (body.type # "event_callback" /\ Signed(body) \in Requests) =>
        fetchOutcome(Signed(body), state).response = expected(body.type)

\* ------------------------------------------------------------- the gates
\* the names of the matches, in their order
namesOf(duplicates) == [i \in 1..Len(duplicates) |-> duplicates[i].name]

\* where a capture handler is once searchForDuplicates has returned
PastSearch ==
  {"postDuplicatePrompt", "storeDuplicate", "fileToNotion", "addReaction100",
   "postConfirmation"}

\* C33: both gates are strict.  A capture whose confidence is exactly 0.6 goes
\* on to the duplicate search, not to the category prompt.  What
\* searchForDuplicates hands back is the matches of searchByName scoring above
\* 0.5, in descending order of score; the duplicate prompt is reached only
\* with a top score above 0.8, so a top score of exactly 0.8 (or a nickname
\* match) lets the capture be filed; and the confirmation of a capture filed
\* with such matches carries their names.
C33_StrictGates ==
  /\ [](\A k \in DOMAIN tasks :
          LET t == tasks[k]
              d == t.duplicates
          IN  /\ (t.pc \in PastGate /\ t.classification.confidence = CONFIDENCE_THRESHOLD)
                 => t.pc \notin {"postCategoryPrompt", "storeLowConfidence"}
              /\ t.pc \in PastSearch
                 => /\ \A i \in DOMAIN d : greater(d[i].score, P50)
                    /\ \A i, j \in DOMAIN d : i < j => ~greater(d[j].score, d[i].score)
                    /\ t.pc \in {"postDuplicatePrompt", "storeDuplicate"}
                       <=> (d # <<>> /\ greater(d[1].score, P80)))
  /\ [][\A k \in DOMAIN tasks :
          LET t == tasks[k]
              u == tasks'[k]
              c == t.classification
              found == searchByName(pages, c.name, c.category)
          IN  /\ (t.pc = "searchForDuplicates" /\ u.pc \in PastSearch)
                 => /\ Range(u.duplicates) = {r \in Range(found) : greater(r.score, P50)}
                    /\ Len(u.duplicates) = Cardinality({i \in DOMAIN found :
                                                          greater(found[i].score, P50)})
              /\ (t.pc = "postConfirmation" /\ Len(u.posts) > Len(t.posts))
                 => LET text == u.posts[Len(u.posts)]
                    IN  IF t.duplicates = <<>>
                        THEN text = formatConfirmation(c.category, c.name, c.confidence)
                        ELSE /\ "similar" \in DOMAIN text
                             /\ text.similar = namesOf(t.duplicates)
                             /\ text.name = c.name /\ text.category = capitalize(c.category)]_vars

\* a capture classified with confidence exactly 0.6 whose top match scores
\* exactly 0.8 has been filed and is about to be confirmed
C33_Witness ==
  \E k \in DOMAIN tasks :
    LET t == tasks[k]
    IN  /\ t.pc = "postConfirmation"
        /\ t.classification.confidence = CONFIDENCE_THRESHOLD
        /\ t.duplicates # <<>>
        /\ same(t.duplicates[1].score, P80)
        /\ t.pageId # undefined

\* C34: a prompt can be answered from the moment it is visible: the handler
\* of a click on a button of a visible prompt finds the ThreadContext of the
\* prompt's thread, and never answers that the context is lost
C34_PromptValid ==
  [][Len(tasks') > Len(tasks) =>
       LET t == tasks'[Len(tasks')]
       IN  (isClick(t) /\ t.prompt \in prompts)
           => /\ t.payload.threadTs \in DOMAIN state
              /\ t.pc # "respondNoContext"]_vars

\* ------------------------------------------------- threads side by side
\* the thread whose context a handler may write: that of the reply, that of
\* the button clicked, or the one the captured message starts
ownThread(t) ==
  IF t.event.thread_ts # 0 THEN t.event.thread_ts
  ELSE IF isClick(t) THEN t.payload.threadTs
  ELSE t.event.ts

\* C35: a step of a handler leaves the context of every thread other than its
\* own as it is at that moment, in memory; a write to durable storage stores
\* the whole map as it is in memory at that moment, so after it the durable
\* copy holds the latest context of every thread; the two copies come to
\* differ only in a step in which a call fails (the storage.put itself), and
\* the next write of any thread stores what the failed one did not.
C35_OtherThreadsKept ==
  [][/\ \A k \in DOMAIN tasks :
          tasks'[k] # tasks[k]
          => \A B \in DOMAIN state :
               B # ownThread(tasks[k]) => B \in DOMAIN state' /\ state'[B] = state[B]
     /\ storage' # storage => storage' = state'
     /\ (state' # state /\ storage' # state') => failures' > failures
     /\ (storage = state /\ failures' = failures) => storage' = state']_vars

\* two handlers on two threads have each written the context of their thread
\* and both contexts are in memory and in durable storage
C35_Witness ==
  /\ DOMAIN state = {1, 2}
  /\ storage = state
  /\ \E k, j \in DOMAIN tasks :
       /\ ownThread(tasks[k]) = 1 /\ tasks[k].wrote
       /\ ownThread(tasks[j]) = 2 /\ tasks[j].wrote

\* C36: a thread whose notionPageId is set has no duplicate pending, and the
\* record its notionPageId names is in the collection of its
\* classification.category
C36_FiledIsResolved ==
  \A ts \in DOMAIN state :
    LET context == state[ts]
    IN  context.notionPageId # undefined
        => /\ context.potentialDuplicate = NoDuplicate
           /\ context.notionPageId \in DOMAIN pages
           /\ pages[context.notionPageId].db = context.classification.category

\* C37: a button resolves its prompt at most once: the handler of a
\* category_select click creates a record only while the thread has none, and
\* the handler of a duplicate_resolve click creates or patches a record only
\* while the duplicate of the thread is pending
C37_ResolvedOnce ==
  [][\A k \in DOMAIN tasks :
       LET t == tasks[k]
           ts == t.payload.threadTs
       IN  (isClick(t) /\ tasks'[k] # t /\ pages' # pages /\ ts \in DOMAIN state)
           => /\ t.payload.action = "category_select"
                 => state[ts].notionPageId = undefined
              /\ t.payload.action = "duplicate_resolve"
                 => state[ts].potentialDuplicate # NoDuplicate]_vars

ignored(event) == event.bot \/ event.subtype # "" \/ event.text = <<>>

C40_DurableIsMemory ==
  (\A k \in DOMAIN tasks : tasks[k].pc \in {"done", "crashed"})
  => /\ storage = state
     /\ \A ts \in DOMAIN state :
          ts \in DOMAIN constructor(storage) /\ constructor(storage)[ts] = state[ts]
====
